---- MODULE Spec2Model ----
(***************************************************************************)
(* Memory orchestration layer of memory_agent (server/mcp-memory).         *)
(*                                                                         *)
(* The module holds three state machines over one set of variables:        *)
(*   SpecStream  MemoryEventStream, its subscribers (subscribe_user,       *)
(*               subscribe_session, subscribe_all, the tool                *)
(*               subscribe_memory_updates) and its only producer,          *)
(*               StreamingMemoryAgent.                                      *)
(*   SpecStore   the store paths: process_message_enhanced and the         *)
(*               store_memory tool of the refactored orchestrator.         *)
(*   SpecUtter   the utterance pipelines: process_user_prompt and          *)
(*               AutonomousMemoryAgent.process_autonomously.               *)
(* The server is a single asyncio event loop: a coroutine runs without     *)
(* interleaving until it awaits something that is not ready, so an action  *)
(* is the code between two such suspension points.                         *)
(***************************************************************************)
EXTENDS Integers, Sequences, FiniteSets, TLC

(***************************************************************************)
(* Bounds of the model.                                                    *)
(***************************************************************************)
MaxQueues == 2      \* asyncio.Queue objects ever created
MaxEvents == 2      \* MemoryEvent objects ever created
MaxEmitters == 1    \* concurrent calls of the StreamingMemoryAgent
MaxTime == 1        \* last value of the wall clock (seconds)
MaxRows == 1        \* rows one MemoryStorage may hold
MaxObjects == 2     \* Memory objects handed to one MemoryStorage
MaxStoreRows == 1   \* rows the MemoryStorage of a storing tool may hold
MaxRagCalls == 1    \* rag_save_document requests issued
MaxFound == 1       \* memories one retrieval may find
SmallQueueSize == 1 \* a queue_size a direct subscriber passes
MaxHandled == 2     \* process_autonomously calls counted per user
MaxMemRows == 2     \* rows the storage of the directly used agent may hold
MaxHours == 36      \* last value of the clock of the index optimizer (hours)
HourStep == 12      \* hours the clock of the index optimizer moves at once

(***************************************************************************)
(* Program constants.                                                      *)
(***************************************************************************)
DefaultQueueSize == 100   \* queue_size: int = 100
MaxToolEvents == 100      \* if len(events) > 100: break
BufferSize == 10          \* conversation_buffer[user_id][-10:]
OptimizeInterval == 24    \* if hours_since < 24
MinRowsToOptimize == 100  \* if stats.get("row_count", 0) < 100

None == "None"       \* Python None where a string is expected
NoImportance == 0 - 1 \* Python None where an importance is expected
NoId == ""            \* Python None where a memory id is expected
Users == {"u1", "u2"}
Sessions == {"s1"}
Contents == {"hi", "my_name", "weather_q", "like_python"}
QueueIds == 1..MaxQueues
EmitterIds == 1..MaxEmitters
Agents == {"streaming", "enhanced_tool", "sse_tool", "agent"}

VARIABLES
    \* ---- MemoryEventStream ----
    subscriptions,          \* _subscriptions: user_id -> set of queues
    session_subscriptions,  \* _session_subscriptions: session_id -> set of queues
    global_subscriptions,   \* _global_subscriptions: set of queues
    queue,                  \* items of every asyncio.Queue, oldest first
    maxsize,                \* maxsize of every asyncio.Queue
    gen,                    \* the async generator that owns each queue
    call,                   \* the subscribe_memory_updates call behind a queue
    received,               \* events each consumer has been handed, in order
    enqueued,               \* events ever put on each queue, in order
    events,                 \* MemoryEvent objects made by create_event
    emitters,               \* the emit_event call of each producer
    nextQueue,              \* queues created so far
    \* ---- MemoryStorage of each MemoryAgent instance, external stores ----
    memories,               \* MemoryStorage.memories per agent instance
    deleted,                \* ids of rows a storage has removed
    ragDocs,                \* documents the RAG index holds
    ragCalls,               \* rag_save_document requests issued
    now,                    \* int(datetime.now().timestamp())
    \* ---- the call in progress / the last response of a tool ----
    resp,                   \* response of the last finished tool call
    up,                     \* the process_user_prompt / process_autonomously call
    \* ---- AutonomousMemoryAgent ----
    conversation_buffer,    \* conversation_buffer: user_id -> recent exchanges
    handled,                \* process_autonomously calls made so far, per user
    \* ---- a MemoryAgent used directly ----
    mem,                    \* the last call made to it or to its storage
    \* ---- the vector table user_memories and its index optimizer ----
    table,                  \* the table as the database holds it
    last_optimization,      \* index_optimizer._last_optimization[table_name]
    hoursNow,               \* datetime.utcnow(), in hours
    ix,                     \* the last provisioning / optimization call
    \* ---- optimize_memory_index, one await at a time ----
    runs,                   \* the optimize_memory_index call of each caller
    pg,                     \* rows and indexes of user_memories in the database
    \* ---- StorageStrategyDeterminer ----
    plan,                   \* the last strategy it returned, and for what
    \* ---- InternalMCPClient ----
    cl,                     \* the call_tool call in progress
    \* ---- one MemoryStorage, object by object ----
    storage                 \* its Memory objects, main list and two indexes

streamVars == <<subscriptions, session_subscriptions, global_subscriptions,
                queue, maxsize, gen, call, received, enqueued, events,
                emitters, nextQueue>>
storeVars == <<memories, deleted, ragDocs, ragCalls, now>>
agentVars == <<conversation_buffer, handled>>
indexVars == <<table, last_optimization, hoursNow, ix>>
optVars == <<runs, pg>>
lateVars == <<plan, cl, storage>>
extVars == <<optVars, lateVars>>
coreVars == <<streamVars, storeVars, resp, up, agentVars, mem, indexVars>>
restVars == <<agentVars, mem, indexVars, extVars>>
vars == <<streamVars, storeVars, resp, up, restVars>>

(***************************************************************************)
(* The messages of the model and what the text analysis of the source      *)
(* finds in them.  "hi" is the literal hi, "my_name" is the spec's         *)
(* identity utterance (one name entity, two keywords, three words),        *)
(* "weather_q" is the spec's question utterance (no entity, three          *)
(* keywords, a question mark, the temporal word for today),                *)
(* "like_python" is the spec's preference utterance (no entity, two        *)
(* keywords, three words, a liking of level 8).                            *)
(***************************************************************************)
NumEntities(c) == IF c = "my_name" THEN 1 ELSE 0
NumKeywords(c) ==
    CASE c \in {"my_name", "like_python"} -> 2 [] c = "weather_q" -> 3 [] OTHER -> 0
WordCount(c) == CASE c = "hi" -> 1 [] c = "" -> 0 [] OTHER -> 3
ContentSize(c) ==
    CASE c = "hi" -> 2 [] c = "" -> 0 [] c = "weather_q" -> 9 [] OTHER -> 12
IsQuestion(c) == c = "weather_q"
HasTemporalWord(c) == c = "weather_q"
HasSpecificWord(c) == FALSE
NumIdentityAttributes(c) == IF c = "my_name" THEN 1 ELSE 0
NumSkills(c) == 0
PreferenceLevel(c) == IF c = "like_python" THEN 8 ELSE NoImportance

MemoryTypes == {"fact", "preference", "identity", "profession", "skill", "goal",
                "hobby", "experience", "context", "conversation"}

\* MemoryIntelligence.extract_memory_type: the first pattern list that
\* matches; a message of fewer than ten words that matches none is a
\* conversation, a longer one a fact.
extract_memory_type(c) ==
    CASE c \in {"my_name", "like_python"} -> "identity"
      [] c = "weather_q" -> "conversation"
      [] WordCount(c) < 10 -> "conversation"
      [] OTHER -> "fact"

Min(a, b) == IF a < b THEN a ELSE b
Max(a, b) == IF a > b THEN a ELSE b

(***************************************************************************)
(* MemoryStorage: rows are appended to memories; _index_by_user holds the  *)
(* same rows under their user_id and _index_by_session under the string    *)
(* user_id + "_" + session_id, so a search is a filter of the row list.    *)
(***************************************************************************)
\* f"{user_id}_{session_id}", the key of MemoryStorage._index_by_session
SessionKey(user, session) == user \o "_" \o session

\* search_memories with no query and no type filter (get_user_memories):
\* the session index when session_id is truthy, else the user index.
UserMemories(rows, user, session) ==
    SelectSeq(rows, LAMBDA m :
        IF session \in {None, ""}
        THEN m.user_id = user                    \* _index_by_user[user_id]
        ELSE SessionKey(m.user_id, m.session_id)  \* _index_by_session[key]
                = SessionKey(user, session))

\* get_memory_stats: memory.type.value raises for a row whose type was
\* stored as a plain string, and the handler then returns {"error": ...},
\* which the caller reads as no memories at all.
StatsFail(rows, user, session) ==
    \E i \in 1..Len(UserMemories(rows, user, session)) :
        UserMemories(rows, user, session)[i].typeIsStr
TotalMemories(rows, user, session) ==
    IF StatsFail(rows, user, session) THEN 0
    ELSE Len(UserMemories(rows, user, session))
TypeCount(rows, user, session, mtype) ==
    IF StatsFail(rows, user, session) THEN 0
    ELSE Len(SelectSeq(UserMemories(rows, user, session),
                       LAMBDA m: m.type = mtype))

\* MemoryIntelligence.calculate_importance, in tenths of a point.  The
\* context boosts apply only to a non-empty context dict.
BaseImportance(mtype) ==
    CASE mtype = "identity" -> 90 [] mtype = "profession" -> 85
      [] mtype = "goal" -> 80 [] mtype = "skill" -> 75
      [] mtype = "experience" -> 70 [] mtype = "preference" -> 65
      [] mtype = "hobby" -> 60 [] mtype = "fact" -> 50
      [] mtype = "context" -> 40 [] mtype = "conversation" -> 30
      [] OTHER -> 50
calculate_importance(c, mtype, hasContext, count, typeCount) ==
    LET words == IF WordCount(c) > 15 THEN 10
                 ELSE IF WordCount(c) > 10 THEN 5 ELSE 0
        specific == IF HasSpecificWord(c) THEN 5 ELSE 0
        question == IF mtype = "conversation" /\ IsQuestion(c) THEN 20 ELSE 0
        temporal == IF HasTemporalWord(c) THEN 5 ELSE 0
        early == IF ~hasContext THEN 0
                 ELSE IF count < 5 THEN 10 ELSE IF count < 10 THEN 5 ELSE 0
        rare == IF ~hasContext THEN 0
                ELSE IF typeCount = 0 THEN 10 ELSE IF typeCount < 2 THEN 5 ELSE 0
    IN Min(100, Max(0, BaseImportance(mtype) + words + specific + question
                       + temporal + early + rare))

(***************************************************************************)
(* MemoryAgent.add_memory.                                                 *)
(*   mtype     the memory_type argument: None, a MemoryType member or the  *)
(*             member's value, told apart by typeIsStr.                    *)
(*   imp       the importance argument in tenths, or NoImportance.         *)
(*   intel     "basic" (MemoryIntelligence) or "enhanced"                  *)
(*             (EnhancedMemoryIntelligence put in its place).              *)
(***************************************************************************)
\* hash(content) % 1000.  The hash of a str is fixed within one process;
\* the messages of the model are given different values (two different
\* contents meet with probability 1/1000, which is not modelled).
ContentHash(content) ==
    CASE content = "hi" -> 795
      [] content = "my_name" -> 12
      [] content = "weather_q" -> 340
      [] content = "like_python" -> 926
      [] OTHER -> 0

\* Memory.__init__:
\* f"{user_id}_{session_id}_{int(timestamp)}_{hash(content) % 1000}"
MemoryId(user, session, t, content) ==
    user \o "_" \o session \o "_" \o ToString(t) \o "_"
         \o ToString(ContentHash(content))

\* MemoryStorage.store_memory: the two validations before the append.
StorageAccepts(user, session) == session # None /\ user # ""

\* EnhancedMemoryIntelligence defines neither extract_memory_type nor
\* calculate_importance nor extract_key_information.
IntelHas(intel, method) == intel = "basic"

\* add_memory raises before the Memory is built: nothing reaches the storage.
RaisesBeforeStore(mtype, typeIsStr, imp, intel) ==
    \/ mtype = None /\ ~IntelHas(intel, "extract_memory_type")
    \/ imp = NoImportance /\ ~IntelHas(intel, "calculate_importance")
    \/ imp = NoImportance /\ mtype # None /\ typeIsStr  \* memory_type.value on a str

\* add_memory raises after storage.store_memory returned.
RaisesAfterStore(mtype, typeIsStr, intel, success) ==
    \/ mtype # None /\ typeIsStr         \* "memory_type": memory_type.value
    \/ success /\ ~IntelHas(intel, "extract_key_information")

AddMemory(rows, user, session, content, mtype, typeIsStr, imp, intel, t) ==
    IF RaisesBeforeStore(mtype, typeIsStr, imp, intel)
    THEN [rows |-> rows, status |-> "error", memory_id |-> NoId,
          stored |-> FALSE, importance |-> NoImportance]
    ELSE LET type == IF mtype = None THEN extract_memory_type(content) ELSE mtype
             success == StorageAccepts(user, session)
             importance ==
                 IF imp = NoImportance
                 THEN calculate_importance(content, type, TRUE,
                          TotalMemories(rows, user, session),
                          TypeCount(rows, user, session, type))
                 ELSE imp
             memory == [id |-> MemoryId(user, session, t, content),
                        user_id |-> user, session_id |-> session,
                        type |-> type, typeIsStr |-> (mtype # None /\ typeIsStr),
                        content |-> content, importance |-> importance,
                        timestamp |-> t, metadata |-> "{}"]
             rows2 == IF success THEN Append(rows, memory) ELSE rows
         IN IF RaisesAfterStore(mtype, typeIsStr, intel, success)
            THEN [rows |-> rows2, status |-> "error", memory_id |-> NoId,
                  stored |-> success, importance |-> NoImportance]
            ELSE [rows |-> rows2,
                  status |-> IF success THEN "success" ELSE "error",
                  memory_id |-> IF success THEN memory.id ELSE NoId,
                  stored |-> success, importance |-> importance]

(***************************************************************************)
(* MemoryEventStream.                                                      *)
(***************************************************************************)
\* dict lookups of the three subscription maps
Subscribers(map, key) == IF key \in DOMAIN map THEN map[key] ELSE {}

\* if key not in map: map[key] = set();  map[key].add(queue)
AddSubscriber(map, key, q) ==
    [k \in DOMAIN map \cup {key} |->
        IF k = key THEN Subscribers(map, k) \cup {q} ELSE map[k]]

\* map[key].discard(queue);  if not map[key]: del map[key]
RemoveSubscriber(map, key, q) ==
    IF map[key] \ {q} = {}
    THEN [k \in DOMAIN map \ {key} |-> map[k]]
    ELSE [map EXCEPT ![key] = @ \ {q}]

\* asyncio.Queue.full()
Full(q) == Len(queue[q]) >= maxsize[q]

\* asyncio.Queue is first in, first out: put appends, get takes the head.
QueuePut(items, ev) == Append(items, ev)
\* a queue that hands out its newest item first, as a LifoQueue would
QueueGetNewest(items) ==
    [item |-> items[Len(items)], rest |-> SubSeq(items, 1, Len(items) - 1)]
QueueGet(items) == [item |-> Head(items), rest |-> Tail(items)]

\* The three loops of emit_event, in the order of the code.
PhaseSet(p, ev) ==
    CASE p = 1 -> Subscribers(subscriptions, ev.user_id)
      [] p = 2 -> IF ev.session_id \notin {None, ""}
                  THEN Subscribers(session_subscriptions, ev.session_id)
                  ELSE {}
      [] OTHER -> global_subscriptions

IdleEmitter == [pc |-> "idle", ev |-> 0, phase |-> 0, on |-> 0, rest |-> {},
                iterSet |-> {}, stale |-> FALSE]

(***************************************************************************)
(* emit_event from loop p with the queues todo still to visit: the set of  *)
(* ways the call can run until it returns or suspends.  "await             *)
(* queue.put(event)" returns at once on a queue with room and suspends     *)
(* the caller on a full one (asyncio.Queue.put never raises QueueFull), so *)
(* the call delivers to some of the queues with room, in the arbitrary     *)
(* order of the set iteration, and stops at the first full queue it meets. *)
(***************************************************************************)
RECURSIVE EmitOutcomes(_, _, _, _, _)
EmitOutcomes(ev, evId, p, todo, iterSet) ==
    LET full == {q \in todo : Full(q)} IN
    IF full # {}
    THEN {[delivered |-> D,
           em |-> [pc |-> "blocked", ev |-> evId, phase |-> p, on |-> b,
                   rest |-> (todo \ D) \ {b}, iterSet |-> iterSet,
                   stale |-> FALSE]] : D \in SUBSET (todo \ full), b \in full}
    ELSE IF p = 3
    THEN {[delivered |-> todo, em |-> IdleEmitter]}
    ELSE {[delivered |-> todo \cup o.delivered, em |-> o.em] :
             o \in EmitOutcomes(ev, evId, p + 1, PhaseSet(p + 1, ev),
                                PhaseSet(p + 1, ev))}

Deliver(D, evId) ==
    /\ queue' = [q \in QueueIds |->
                    IF q \in D THEN QueuePut(queue[q], evId) ELSE queue[q]]
    /\ enqueued' = [q \in QueueIds |->
                    IF q \in D THEN Append(enqueued[q], evId) ELSE enqueued[q]]

\* create_event followed by emit_event, called by producer e.
EmitEvent(e, ev) ==
    LET evId == Len(events) + 1 IN
    /\ events' = Append(events, ev)
    /\ \E o \in EmitOutcomes(ev, evId, 1, PhaseSet(1, ev), PhaseSet(1, ev)) :
          /\ Deliver(o.delivered, evId)
          /\ emitters' = [emitters EXCEPT ![e] = o.em]

\* The set object a suspended emit_event is iterating: the iterator keeps
\* the object it started on, which is empty once its key has been deleted.
IteratedSet(em) ==
    IF em.stale THEN {} ELSE PhaseSet(em.phase, events[em.ev])

(***************************************************************************)
(* A suspended emit_event goes on once its queue has room: the pending put *)
(* completes, then the for loop asks the set iterator for the next queue.  *)
(* The iterator raises RuntimeError when the set has changed size since    *)
(* the loop began; when the set has changed but has its old size, what is  *)
(* left to visit is whatever the rebuilt hash table yields.                *)
(***************************************************************************)
EmitResume(e) ==
    LET em == emitters[e]
        cur == IteratedSet(em)
    IN
    /\ em.pc = "blocked"
    /\ ~Full(em.on)
    /\ UNCHANGED <<subscriptions, session_subscriptions, global_subscriptions,
                   maxsize, gen, call, received, events, nextQueue,
                   storeVars, resp, up,
                   restVars>>
    /\ IF Cardinality(cur) # Cardinality(em.iterSet)
       THEN /\ Deliver({em.on}, em.ev)
            /\ emitters' = [emitters EXCEPT ![e] = [IdleEmitter EXCEPT !.pc = "failed"]]
       ELSE \E todo \in (IF cur = em.iterSet THEN {em.rest}
                         ELSE SUBSET (cur \ {em.on})) :
            \E o \in EmitOutcomes(events[em.ev], em.ev, em.phase, todo, cur) :
               /\ Deliver({em.on} \cup o.delivered, em.ev)
               /\ emitters' = [emitters EXCEPT ![e] = o.em]

(***************************************************************************)
(* Subscribers.  gen[q].state is where the async generator of queue q      *)
(* stands: "none" (not created), "waiting" (in await queue.get()),         *)
(* "yielded" (suspended at yield, its consumer holds the event) or         *)
(* "closed" (the finally block has run).                                   *)
(***************************************************************************)
NoGen == [state |-> "none", kind |-> "none", key |-> None]
NoCall == [pc |-> "none", user_id |-> None, session_id |-> None,
           expired |-> FALSE]

\* The head of subscribe_user / subscribe_session / subscribe_all up to the
\* first await queue.get(): the queue is created and registered.
Register(kind, key, q) ==
    /\ subscriptions' = IF kind = "user"
                        THEN AddSubscriber(subscriptions, key, q)
                        ELSE subscriptions
    /\ session_subscriptions' = IF kind = "session"
                                THEN AddSubscriber(session_subscriptions, key, q)
                                ELSE session_subscriptions
    /\ global_subscriptions' = IF kind = "all"
                               THEN global_subscriptions \cup {q}
                               ELSE global_subscriptions

\* The finally block of the generator of queue q.
Unregister(q) ==
    /\ subscriptions' = IF gen[q].kind = "user"
                        THEN RemoveSubscriber(subscriptions, gen[q].key, q)
                        ELSE subscriptions
    /\ session_subscriptions' = IF gen[q].kind = "session"
                                THEN RemoveSubscriber(session_subscriptions, gen[q].key, q)
                                ELSE session_subscriptions
    /\ global_subscriptions' = IF gen[q].kind = "all"
                               THEN global_subscriptions \ {q}
                               ELSE global_subscriptions
    /\ gen' = [gen EXCEPT ![q].state = "closed"]
    \* a suspended emit_event whose set object lost its key keeps the
    \* emptied object
    /\ emitters' = [e \in EmitterIds |->
          LET em == emitters[e] IN
          IF /\ em.pc = "blocked"
             /\ \/ em.phase = 1 /\ gen[q].kind = "user"
                   /\ events[em.ev].user_id = gen[q].key
                \/ em.phase = 2 /\ gen[q].kind = "session"
                   /\ events[em.ev].session_id = gen[q].key
             /\ IteratedSet(em) = {q}
          THEN [em EXCEPT !.stale = TRUE]
          ELSE em]

\* subscribe_user(user_id, queue_size), iterated by a consumer of its own
SubscribeUser(u, size) ==
    /\ nextQueue < MaxQueues
    /\ nextQueue' = nextQueue + 1
    /\ Register("user", u, nextQueue + 1)
    /\ maxsize' = [maxsize EXCEPT ![nextQueue + 1] = size]
    /\ gen' = [gen EXCEPT ![nextQueue + 1] =
                  [state |-> "waiting", kind |-> "user", key |-> u]]
    /\ UNCHANGED <<queue, call, received, enqueued, events, emitters,
                   storeVars, resp, up,
                   restVars>>

\* subscribe_session(session_id, queue_size), iterated by a consumer of its own
SubscribeSession(sid, size) ==
    /\ nextQueue < MaxQueues
    /\ nextQueue' = nextQueue + 1
    /\ Register("session", sid, nextQueue + 1)
    /\ maxsize' = [maxsize EXCEPT ![nextQueue + 1] = size]
    /\ gen' = [gen EXCEPT ![nextQueue + 1] =
                  [state |-> "waiting", kind |-> "session", key |-> sid]]
    /\ UNCHANGED <<queue, call, received, enqueued, events, emitters,
                   storeVars, resp, up,
                   restVars>>

\* subscribe_all(queue_size), iterated by a consumer of its own
SubscribeAll(size) ==
    /\ nextQueue < MaxQueues
    /\ nextQueue' = nextQueue + 1
    /\ Register("all", None, nextQueue + 1)
    /\ maxsize' = [maxsize EXCEPT ![nextQueue + 1] = size]
    /\ gen' = [gen EXCEPT ![nextQueue + 1] =
                  [state |-> "waiting", kind |-> "all", key |-> None]]
    /\ UNCHANGED <<queue, call, received, enqueued, events, emitters,
                   storeVars, resp, up,
                   restVars>>

\* The tool subscribe_memory_updates(user_id, session_id, duration_seconds)
\* up to its first suspension: a session subscription when session_id is
\* given, a user subscription otherwise, with the default queue size.
SubscribeMemoryUpdates(user_id, session_id) ==
    LET q == nextQueue + 1
        kind == IF session_id \notin {None, ""} THEN "session" ELSE "user"
        key == IF session_id \notin {None, ""} THEN session_id ELSE user_id
    IN
    /\ nextQueue < MaxQueues
    /\ nextQueue' = q
    /\ Register(kind, key, q)
    /\ maxsize' = [maxsize EXCEPT ![q] = DefaultQueueSize]
    /\ gen' = [gen EXCEPT ![q] = [state |-> "waiting", kind |-> kind, key |-> key]]
    /\ call' = [call EXCEPT ![q] = [pc |-> "running", user_id |-> user_id,
                                    session_id |-> session_id,
                                    expired |-> FALSE]]
    /\ UNCHANGED <<queue, received, enqueued, events, emitters,
                   storeVars, resp, up,
                   restVars>>

\* event = await queue.get(); yield event -- to a consumer in an async for
\* loop, which handles the event and asks for the next one.
ConsumerReceive(q) ==
    /\ gen[q].state = "waiting"
    /\ call[q].pc = "none"
    /\ queue[q] # <<>>
    /\ queue' = [queue EXCEPT ![q] = QueueGet(queue[q]).rest]
    /\ received' = [received EXCEPT ![q] = Append(@, QueueGet(queue[q]).item)]
    /\ UNCHANGED <<subscriptions, session_subscriptions, global_subscriptions,
                   maxsize, gen, call, enqueued, events, emitters, nextQueue,
                   storeVars, resp, up,
                   restVars>>

\* The clock of the event loop passes end_time (= the time of the call +
\* duration_seconds) while the call is in progress: from now on
\* asyncio.get_event_loop().time() > end_time.  Nothing in the tool waits
\* for this moment; the comparison is made in ToolReceive only.
DeadlinePasses(q) ==
    /\ call[q].pc = "running"
    /\ ~call[q].expired
    /\ call' = [call EXCEPT ![q].expired = TRUE]
    /\ UNCHANGED <<subscriptions, session_subscriptions, global_subscriptions,
                   queue, maxsize, gen, received, enqueued, events, emitters,
                   nextQueue, storeVars, resp, up,
                   restVars>>

\* One turn of the async for loop of subscribe_memory_updates: the event is
\* appended; when the deadline has passed or more than 100 events are held
\* the loop breaks and the function returns its JSON, leaving the generator
\* suspended at its yield.
ToolReceive(q) ==
    /\ gen[q].state = "waiting"
    /\ call[q].pc = "running"
    /\ queue[q] # <<>>
    /\ queue' = [queue EXCEPT ![q] = QueueGet(queue[q]).rest]
    /\ received' = [received EXCEPT ![q] = Append(@, QueueGet(queue[q]).item)]
    /\ IF call[q].expired \/ Len(received[q]) + 1 > MaxToolEvents
       THEN /\ gen' = [gen EXCEPT ![q].state = "yielded"]
            /\ call' = [call EXCEPT ![q].pc = "returned"]
       ELSE UNCHANGED <<gen, call>>
    /\ UNCHANGED <<subscriptions, session_subscriptions, global_subscriptions,
                   maxsize, enqueued, events, emitters, nextQueue,
                   storeVars, resp, up,
                   restVars>>

\* The task running subscribe_memory_updates is cancelled while it waits in
\* queue.get(): CancelledError unwinds the generator through its finally
\* block, the tool catches it and returns.
ToolCancel(q) ==
    /\ gen[q].state = "waiting"
    /\ call[q].pc = "running"
    /\ Unregister(q)
    /\ call' = [call EXCEPT ![q].pc = "returned"]
    /\ UNCHANGED <<queue, maxsize, received, enqueued, events, nextQueue,
                   storeVars, resp, up,
                   restVars>>

\* The generator the tool left suspended is finalized: the event loop's
\* asynchronous-generator hook schedules aclose() once the object is
\* unreachable, and the finally block runs in a later turn of the loop.
Finalize(q) ==
    /\ gen[q].state = "yielded"
    /\ call[q].pc = "returned"
    /\ Unregister(q)
    /\ UNCHANGED <<queue, maxsize, call, received, enqueued, events, nextQueue,
                   storeVars, resp, up,
                   restVars>>

\* A consumer of its own closes its iterator: its task is cancelled while
\* the generator waits in queue.get(), or it breaks out of its loop and
\* calls aclose().
Close(q) ==
    /\ gen[q].state = "waiting"
    /\ call[q].pc = "none"
    /\ Unregister(q)
    /\ UNCHANGED <<queue, maxsize, call, received, enqueued, events, nextQueue,
                   storeVars, resp, up,
                   restVars>>

(***************************************************************************)
(* StreamingMemoryAgent: the MemoryAgent wrapped with event emission.  A   *)
(* call is made by producer e; it is over when emit_event has returned.    *)
(* search_memories is left out: the wrapped MemoryAgent has search_memory  *)
(* but no search_memories, so its first line raises AttributeError and no  *)
(* memory_retrieved event is ever created.                                 *)
(***************************************************************************)
CallOver(e) == emitters[e].pc \in {"idle", "failed"}

\* int(timestamp) of datetime.now()
Tick ==
    /\ now < MaxTime
    /\ now' = now + 1
    /\ UNCHANGED <<streamVars, memories, deleted, ragDocs, ragCalls, resp, up,
                   restVars>>

\* StreamingMemoryAgent.add_memory: the event is created and emitted only
\* when the wrapped add_memory answered status success.
StreamingAddMemory(e, user, session, content, mtype, typeIsStr, imp) ==
    LET r == AddMemory(memories["streaming"], user, session, content,
                       mtype, typeIsStr, imp, "basic", now)
    IN
    /\ CallOver(e)
    /\ Len(memories["streaming"]) < MaxRows
    /\ Len(events) < MaxEvents
    /\ memories' = [memories EXCEPT !["streaming"] = r.rows]
    /\ IF r.status = "success"
       THEN EmitEvent(e, [event_type |-> "memory_created", user_id |-> user,
                          session_id |-> session, memory_id |-> r.memory_id])
       ELSE /\ emitters' = [emitters EXCEPT ![e] = IdleEmitter]
            /\ UNCHANGED <<queue, enqueued, events>>
    /\ UNCHANGED <<subscriptions, session_subscriptions, global_subscriptions,
                   maxsize, gen, call, received, nextQueue,
                   deleted, ragDocs, ragCalls, now, resp, up,
                   restVars>>

\* StreamingMemoryAgent.delete_memory: success is the constant True, the
\* wrapped agent is not called, the event carries no session.
StreamingDeleteMemory(e, user_id, memory_id) ==
    /\ CallOver(e)
    /\ Len(events) < MaxEvents
    /\ EmitEvent(e, [event_type |-> "memory_deleted", user_id |-> user_id,
                     session_id |-> None, memory_id |-> memory_id])
    /\ UNCHANGED <<subscriptions, session_subscriptions, global_subscriptions,
                   maxsize, gen, call, received, nextQueue,
                   storeVars, resp, up,
                   restVars>>

\* ids a caller of delete_memory may name: those of stored rows and one
\* that no row has
RowIds(rows) == {rows[i].id : i \in 1..Len(rows)}
UnknownId == MemoryId("u1", "s1", MaxTime + 1, "hi")

\* What a tool answered, with what the call did to the stores.
Response(op, success, stored, error_type) ==
    [op |-> op, success |-> success, stored |-> stored,
     error_type |-> error_type, memory_id |-> NoId, rag_stored |-> FALSE,
     should_store |-> "unknown", db_called |-> FALSE, db_ok |-> FALSE,
     rag_wanted |-> FALSE, rag_ok |-> FALSE,
     rows_added |-> 0, rag_calls_added |-> 0, events_added |-> 0]
NoResp == Response("none", FALSE, "absent", "")
\* The process_user_prompt / process_autonomously call: its arguments, where
\* it stands, the steps it has run and what it has decided and answered.
Utterance(op, user_id, prompt, session_id, auto_store, generate_response) ==
    [op |-> op, pc |-> "retrieval", user_id |-> user_id, prompt |-> prompt,
     session_id |-> session_id, auto_store |-> auto_store,
     generate_response |-> generate_response,
     trace |-> <<>>, found |-> 0, embedding_failed |-> FALSE,
     memory_type |-> None, importance |-> NoImportance,
     store_decided |-> FALSE, stored_memory |-> FALSE, rows_added |-> 0,
     completion_failed |-> FALSE, response |-> "",
     success |-> FALSE, error_type |-> ""]
NoUtter == [Utterance("none", None, "", None, FALSE, FALSE) EXCEPT !.pc = "idle"]

\* the table does not exist; no call made yet
NoTime == 0 - 1
NoTable == [exists |-> FALSE, dim |-> 0, rows |-> 0, indexes |-> {}]
NoIx == [op |-> "none", force |-> FALSE, matched |-> FALSE, kept |-> FALSE,
         recreated |-> FALSE, small |-> FALSE, recent |-> FALSE,
         optimized |-> FALSE, indexes_changed |-> FALSE, result |-> FALSE]

\* no call made yet
NoMem == [op |-> "none", user_id |-> None, session_id |-> None,
          status |-> "none", results |-> <<>>]

\* the callers of optimize_memory_index on one optimizer object
Callers == {"c1", "c2"}

\* a strategy dict of _determine_index_strategy; a key a strategy lacks is 0
NoStrategy ==
    [type |-> "unset", lists |-> 0, probes |-> 0, m |-> 0,
     ef_construction |-> 0, ef_search |-> 0, user_optimized |-> FALSE,
     lists_per_partition |-> 0]

\* no vector index under the name idx_user_memories_embedding_optimized
NoIndex == [method |-> "none", lists |-> 0, m |-> 0, ef_construction |-> 0]

\* the table user_memories before rows are inserted
EmptyPg ==
    [rows |-> 0, users |-> 0, power |-> 0, index |-> NoIndex, extra |-> {}]

\* a caller that has not called yet
NoRun ==
    [pc |-> "idle", force |-> FALSE, power_users |-> 0, total_users |-> 0,
     strategy |-> NoStrategy, optimized |-> FALSE, skipped |-> FALSE, create_failed |-> FALSE,
     recorded |-> FALSE]

\* ttl_seconds = None
NoTtl == 0 - 1

\* a StorageStrategy; secondary_locations is held as a set
Strategy(primary, secondary, rag, embedding, ttl, compression, search) ==
    [primary_location |-> primary, secondary_locations |-> secondary,
     includes_rag |-> rag, includes_embedding |-> embedding,
     ttl_seconds |-> ttl, compression_enabled |-> compression,
     index_for_search |-> search]

\* no strategy asked for yet
NoPlan ==
    [op |-> "none", major |-> None, minor |-> None, importance |-> 0,
     content_size |-> 0, daily_access_count |-> 0,
     days_since_last_access |-> 0, search_hit_rate |-> 0,
     before |-> Strategy(None, {}, FALSE, FALSE, NoTtl, FALSE, FALSE),
     strategy |-> Strategy(None, {}, FALSE, FALSE, NoTtl, FALSE, FALSE)]

\* no call_tool call made yet
NoClientCall ==
    [pc |-> "idle", client |-> None, tool_name |-> None, attempt |-> 0,
     sent |-> 0, sleeps |-> <<>>, success |-> FALSE, error_type |-> ""]

\* a MemoryStorage just constructed: no Memory object, an empty list and
\* two empty indexes; returned and results hold what the last call returned
EmptyStorage ==
    [objs |-> <<>>, memories |-> <<>>, index_by_user |-> <<>>,
     index_by_session |-> <<>>, op |-> "none", returned |-> FALSE,
     results |-> <<>>]

InitStream ==
    /\ subscriptions = <<>>
    /\ session_subscriptions = <<>>
    /\ global_subscriptions = {}
    /\ queue = [q \in QueueIds |-> <<>>]
    /\ maxsize = [q \in QueueIds |-> 0]
    /\ gen = [q \in QueueIds |-> NoGen]
    /\ call = [q \in QueueIds |-> NoCall]
    /\ received = [q \in QueueIds |-> <<>>]
    /\ enqueued = [q \in QueueIds |-> <<>>]
    /\ events = <<>>
    /\ emitters = [e \in EmitterIds |-> IdleEmitter]
    /\ nextQueue = 0
    /\ memories = [a \in Agents |-> <<>>]
    /\ deleted = [a \in Agents |-> {}]
    /\ ragDocs = {}
    /\ ragCalls = <<>>
    /\ now = 0
    /\ resp = NoResp
    /\ up = NoUtter
    /\ conversation_buffer = [u \in Users |-> <<>>]
    /\ handled = [u \in Users |-> 0]
    /\ mem = NoMem
    /\ table = NoTable
    /\ last_optimization = NoTime
    /\ hoursNow = 0
    /\ ix = NoIx
    /\ runs = [p \in Callers |-> NoRun]
    /\ pg = EmptyPg
    /\ plan = NoPlan
    /\ cl = NoClientCall
    /\ storage = EmptyStorage

NextStream ==
    \/ \E u \in Users, size \in {SmallQueueSize, DefaultQueueSize} :
          SubscribeUser(u, size)
    \/ \E sid \in Sessions, size \in {SmallQueueSize, DefaultQueueSize} :
          SubscribeSession(sid, size)
    \/ \E size \in {SmallQueueSize, DefaultQueueSize} : SubscribeAll(size)
    \/ \E u \in Users, sid \in Sessions \cup {None} : SubscribeMemoryUpdates(u, sid)
    \/ \E q \in QueueIds : ConsumerReceive(q)
    \/ \E q \in QueueIds : DeadlinePasses(q)
    \/ \E q \in QueueIds : ToolReceive(q)
    \/ \E q \in QueueIds : ToolCancel(q)
    \/ \E q \in QueueIds : Finalize(q)
    \/ \E q \in QueueIds : Close(q)
    \/ \E e \in EmitterIds, u \in Users, sid \in Sessions \cup {None} :
          StreamingAddMemory(e, u, sid, "hi", None, FALSE, NoImportance)
    \/ \E e \in EmitterIds, u \in Users,
          id \in RowIds(memories["streaming"]) \cup {UnknownId} :
          StreamingDeleteMemory(e, u, id)
    \/ \E e \in EmitterIds : EmitResume(e)

SpecStream == InitStream /\ [][NextStream]_vars

(***************************************************************************)
(* The stream under the scheduling of the event loop: a coroutine that is  *)
(* ready to run is run, and the clock moves on.  No fairness is assumed of *)
(* the callers: nobody has to subscribe, store, delete or cancel.          *)
(***************************************************************************)
SpecStreamLive ==
    /\ InitStream
    /\ [][NextStream]_vars
    /\ \A q \in QueueIds : WF_vars(DeadlinePasses(q))
    /\ \A q \in QueueIds : WF_vars(ToolReceive(q))
    /\ \A q \in QueueIds : WF_vars(Finalize(q))
    /\ \A e \in EmitterIds : WF_vars(EmitResume(e))

\* C11: a subscribe_memory_updates call in progress eventually returns,
\* its duration having elapsed, whether or not an event is ever emitted for
\* its user or session.
C11_ReturnsAfterDuration ==
    \A q \in QueueIds : (call[q].pc = "running") ~> (call[q].pc = "returned")

(***************************************************************************)
(* Properties of the event stream.                                         *)
(***************************************************************************)
Registered(q) ==
    \/ \E k \in DOMAIN subscriptions : q \in subscriptions[k]
    \/ \E k \in DOMAIN session_subscriptions : q \in session_subscriptions[k]
    \/ q \in global_subscriptions

IsPrefix(s, t) == Len(s) <= Len(t) /\ SubSeq(t, 1, Len(s)) = s

\* C1: emit_event never waits for a consumer -- on a full queue the event is
\* dropped for that subscription and the call returns, so no producer is
\* ever suspended inside emit_event.
C1_ProducerNeverBlocked ==
    \A e \in EmitterIds : emitters[e].pc # "blocked"

\* C5: every event follows its completed side effect -- a memory_created
\* event names a row the storage holds, a memory_deleted event names a row
\* the storage has removed.
C5_EventAfterSideEffect ==
    \A i \in 1..Len(events) :
        /\ events[i].event_type = "memory_created"
              => events[i].memory_id \in RowIds(memories["streaming"])
        /\ events[i].event_type = "memory_deleted"
              => events[i].memory_id \in deleted["streaming"]

\* C9: delivery is first in, first out per subscription -- what a subscriber
\* has received is, in order, the beginning of what was put on its queue.
C9_FifoPerSubscription ==
    \A q \in QueueIds : IsPrefix(received[q], enqueued[q])

\* a subscriber has received two events of its queue
C9_Witness ==
    \E q \in QueueIds : Len(received[q]) >= 2 /\ received[q][1] # received[q][2]

\* C10: a closed iterator's queue is in no subscription set, and once
\* subscribe_memory_updates has returned the queue of that call is in none.
C10_ClosedOrReturnedIsUnregistered ==
    \A q \in QueueIds :
        (gen[q].state = "closed" \/ call[q].pc = "returned") => ~Registered(q)

(***************************************************************************)
(* The storage pipeline: EnhancedMemoryIntelligence, the strategy          *)
(* determiner and the tools that store a memory.                           *)
(***************************************************************************)
\* process_content_for_storage for a MemoryType member: whether the
\* processor raises, and otherwise should_store and importance (tenths).
Processed(raises, should_store, importance) ==
    [raises |-> raises, should_store |-> should_store, importance |-> importance]

\* _calculate_fact_importance
FactImportance(c) ==
    Min(60 + Min(5 * NumEntities(c), 20) + Min(2 * NumKeywords(c), 10), 90)

\* _calculate_experience_importance; no message of the model has a time
\* reference of the recent kind
ExperienceImportance(c) == Min(70 + (IF WordCount(c) > 50 THEN 5 ELSE 0), 90)

process_content_for_storage(c, mtype) ==
    CASE mtype = "conversation" ->
            Processed(FALSE, TRUE, IF IsQuestion(c) THEN 70 ELSE 50)
      [] mtype = "fact" ->
            Processed(FALSE, NumEntities(c) > 0 \/ NumKeywords(c) > 3,
                      FactImportance(c))
      [] mtype = "preference" ->
            \* 6.0 + preference_level / 10 is None / 10 without a level
            IF PreferenceLevel(c) = NoImportance
            THEN Processed(TRUE, FALSE, NoImportance)
            ELSE Processed(FALSE, TRUE, 60 + PreferenceLevel(c))
      [] mtype = "identity" ->
            Processed(FALSE, NumIdentityAttributes(c) > 0, 90)
      [] mtype = "skill" -> Processed(FALSE, NumSkills(c) > 0, 75)
      [] mtype = "experience" ->
            Processed(FALSE, WordCount(c) > 10, ExperienceImportance(c))
      [] OTHER -> Processed(FALSE, TRUE, 50)

\* StorageStrategyDeterminer._get_default_strategy
DefaultStrategy(importance, content_size) ==
    IF importance >= 80 THEN "high_value_frequent"
    ELSE IF importance >= 60
         THEN IF content_size > 1000 THEN "large_content"
              ELSE "high_value_infrequent"
    ELSE IF importance >= 40 THEN "conversational"
    ELSE "temporary"

\* StorageStrategyDeterminer.determine_strategy for a flat memory type
determine_strategy(mtype, importance, content_size) ==
    CASE mtype = "conversation" -> "conversational"
      [] mtype \in {"identity", "preference"} -> "high_value_frequent"
      [] mtype = "experience" ->
            IF content_size > 1000 THEN "large_content" ELSE "conversational"
      [] mtype = "context" -> "temporary"
      [] OTHER -> DefaultStrategy(importance, content_size)

\* StorageStrategy.includes_rag of the five strategies
includes_rag(strategy) == strategy = "high_value_frequent"

\* a gate that lets everything through
NeverSkip(processed) == FALSE

\* if not processed_content.should_store: return {success, stored: False}
SkipsStorage(processed) == ~processed.should_store

\* InternalMCPClient.call_tool("rag_save_document", ...): the request is
\* recorded; the document is indexed when the RAG service answers success.
RagSave(document_id, user, ok) ==
    /\ ragCalls' = Append(ragCalls, [document_id |-> document_id,
                                     user_id |-> user, ok |-> ok])
    /\ ragDocs' = IF ok THEN ragDocs \cup {<<user, document_id>>} ELSE ragDocs

\* process_message_enhanced(user_id, message, session_id, memory_type); its
\* MemoryAgent has EnhancedMemoryIntelligence in place of the basic one and
\* is not wrapped for streaming.  ragOk is the answer of the RAG service
\* when it is asked.
ProcessMessageEnhanced(user_id, message, session_id, memory_type) ==
    LET op == "process_message_enhanced"
        rows == memories["enhanced_tool"]
        processed == process_content_for_storage(message, memory_type)
        strategy == determine_strategy(memory_type, processed.importance,
                                       ContentSize(message))
        r == AddMemory(rows, user_id, session_id, message, memory_type, TRUE,
                       processed.importance, "enhanced", now)
        wanted == includes_rag(strategy)
    IN
    /\ UNCHANGED <<streamVars, deleted, now, up,
                   restVars>>
    /\ IF message = "" \/ user_id = ""
       THEN /\ resp' = Response(op, FALSE, "absent", "ValidationError")
            /\ UNCHANGED <<memories, ragDocs, ragCalls>>
       ELSE IF memory_type \in {None, ""}
       THEN \* memory_agent.intelligence.extract_memory_type does not exist
            /\ resp' = Response(op, FALSE, "absent", "AttributeError")
            /\ UNCHANGED <<memories, ragDocs, ragCalls>>
       ELSE IF memory_type \notin MemoryTypes
       THEN \* MemoryType(memory_type)
            /\ resp' = Response(op, FALSE, "absent", "ValueError")
            /\ UNCHANGED <<memories, ragDocs, ragCalls>>
       ELSE IF processed.raises
       THEN /\ resp' = Response(op, FALSE, "absent", "TypeError")
            /\ UNCHANGED <<memories, ragDocs, ragCalls>>
       ELSE IF SkipsStorage(processed)
       THEN /\ resp' = [Response(op, TRUE, "false", "")
                           EXCEPT !.should_store = "false"]
            /\ UNCHANGED <<memories, ragDocs, ragCalls>>
       ELSE \E ragOk \in (IF wanted THEN BOOLEAN ELSE {FALSE}) :
            /\ Len(r.rows) <= MaxStoreRows
            /\ wanted => Len(ragCalls) < MaxRagCalls
            /\ memories' = [memories EXCEPT !["enhanced_tool"] = r.rows]
            /\ IF wanted
               THEN RagSave(r.memory_id, user_id, ragOk)
               ELSE UNCHANGED <<ragDocs, ragCalls>>
            /\ resp' = [Response(op, r.status = "success", "absent", "")
                           EXCEPT !.memory_id = r.memory_id,
                                  !.rag_stored = wanted /\ ragOk,
                                  !.should_store =
                                      IF processed.should_store THEN "true"
                                      ELSE "false",
                                  !.db_called = TRUE,
                                  !.db_ok = r.stored,
                                  !.rag_wanted = wanted,
                                  !.rag_ok = wanted /\ ragOk,
                                  !.rows_added = Len(r.rows) - Len(rows),
                                  !.rag_calls_added = IF wanted THEN 1 ELSE 0]

\* The tool store_memory of tool_orchestrator_refactored: its orchestrator is
\* built over the StreamingMemoryAgent, which has no attribute intelligence,
\* so calculate_importance (and analyze_memory_type before it) raises
\* AttributeError before add_memory is reached; the hierarchical type path
\* of an untyped call fails the same way.  The tool answers success false.
StoreMemoryTool(user_id, content, session_id, memory_type) ==
    /\ resp' = Response("store_memory", FALSE, "absent", "AttributeError")
    /\ UNCHANGED <<streamVars, storeVars, up,
                   restVars>>

\* MemoryOrchestrator.calculate_importance reads
\* self.memory_agent.intelligence and builds MemoryType(memory_type); the
\* orchestrator of tool_orchestrator_refactored is built over the
\* StreamingMemoryAgent, which has no attribute intelligence.
AgentHasIntelligence(agent) == agent # "streaming"

ImportanceNeverRaises(agent, memory_type) == FALSE

ImportanceRaises(agent, memory_type) ==
    ~AgentHasIntelligence(agent) \/ memory_type \notin MemoryTypes

\* MemoryOrchestrator.store_memory with a memory_type given: importance,
\* add_memory, then rag_save_document for the types conversation and
\* experience.  raised tells that the exception leaves store_memory.
OrchestratorStore(rows, user_id, content, session_id, memory_type) ==
    IF ImportanceRaises("streaming", memory_type)
    THEN [rows |-> rows, raised |-> TRUE, rag |-> FALSE, memory_id |-> NoId]
    ELSE LET r == AddMemory(rows, user_id, session_id, content, memory_type,
                            TRUE,
                            calculate_importance(content, memory_type,
                                                 FALSE, 0, 0),
                            "basic", now)
         IN [rows |-> r.rows, raised |-> FALSE,
             rag |-> memory_type \in {"conversation", "experience"},
             memory_id |-> r.memory_id]

\* The tool generate_contextual_response: the context is fetched when
\* use_context, the completion is generated, and with a session_id the
\* prompt and the response are handed to store_memory under the types
\* temporal/conversation/question and temporal/conversation/response.
\* ok is whether the RAG, database and model services answer.
GenerateContextualResponse(user_id, prompt, session_id, use_context, ok) ==
    LET op == "generate_contextual_response"
        rows == memories["streaming"]
        first == OrchestratorStore(rows, user_id, "User: " \o prompt,
                                   session_id,
                                   "temporal/conversation/question")
        second == OrchestratorStore(first.rows, user_id,
                                    "Assistant: " \o prompt, session_id,
                                    "temporal/conversation/response")
        calls == (IF first.rag THEN 1 ELSE 0) + (IF second.rag THEN 1 ELSE 0)
    IN
    /\ Len(rows) <= MaxStoreRows
    /\ UNCHANGED <<streamVars, deleted, now, up, restVars>>
    /\ IF ~ok
       THEN /\ resp' = Response(op, FALSE, "absent", "ServiceError")
            /\ UNCHANGED <<memories, ragDocs, ragCalls>>
       ELSE IF session_id \in {None, ""}
       THEN /\ resp' = Response(op, TRUE, "absent", "")
            /\ UNCHANGED <<memories, ragDocs, ragCalls>>
       ELSE IF first.raised
       THEN /\ resp' = Response(op, FALSE, "absent", "AttributeError")
            /\ UNCHANGED <<memories, ragDocs, ragCalls>>
       ELSE /\ memories' = [memories EXCEPT !["streaming"] =
                               IF second.raised THEN first.rows
                               ELSE second.rows]
            /\ UNCHANGED <<ragDocs, ragCalls>>
            /\ resp' = [Response(op, ~second.raised, "absent",
                                 IF second.raised THEN "AttributeError" ELSE "")
                           EXCEPT !.db_called = TRUE,
                                  !.rows_added =
                                      Len(memories'["streaming"]) - Len(rows),
                                  !.rag_calls_added = calls]
InitStore == InitStream

NextStore ==
    \/ \E u \in Users, c \in Contents \cup {""}, sid \in Sessions \cup {None},
          t \in MemoryTypes \cup {None, "bogus"} :
          ProcessMessageEnhanced(u, c, sid, t)
    \/ \E u \in Users, sid \in Sessions \cup {None}, t \in {None, "fact"} :
          StoreMemoryTool(u, "hi", sid, t)
    \/ \E u \in Users, c \in Contents, sid \in Sessions \cup {None, ""},
          uc \in BOOLEAN, ok \in BOOLEAN :
          GenerateContextualResponse(u, c, sid, uc, ok)
    \/ Tick

SpecStore == InitStore /\ [][NextStore]_vars

(***************************************************************************)
(* Properties of the storage pipeline.                                     *)
(***************************************************************************)
\* C2: when the Content Processor says should_store = false, store_memory
\* answers stored = false and has no side effect -- no memory row, no RAG
\* request or document, no event.  The store_memory tool of the refactored
\* orchestrator, which never reaches a store, has no side effect either.
C2_NotStoredNoSideEffects ==
    /\ (resp.op = "process_message_enhanced" /\ resp.should_store = "false")
          => /\ resp.stored = "false"
             /\ resp.success
             /\ resp.rows_added = 0
             /\ resp.rag_calls_added = 0
             /\ resp.events_added = 0
    /\ resp.op = "store_memory"
          => resp.rows_added = 0 /\ resp.rag_calls_added = 0
    /\ events = <<>>

\* an insignificant message was answered stored = false while the storage
\* holds rows of earlier calls
C2_Witness ==
    /\ resp.op = "process_message_enhanced"
    /\ resp.should_store = "false"
    /\ resp.stored = "false"
    /\ memories["enhanced_tool"] # <<>>

\* C3: the primary write comes first and must succeed -- when it fails the
\* operation answers success = false and issues no RAG write.
C3_PrimaryFailureStopsPipeline ==
    (resp.op = "process_message_enhanced" /\ resp.db_called /\ ~resp.db_ok)
        => ~resp.success /\ resp.rag_calls_added = 0

\* C4: when the strategy includes RAG, the primary write succeeded and the
\* RAG write failed, the operation still answers success, the row is kept
\* and rag_stored = false is recorded.
C4_RagFailureIsNotFatal ==
    (/\ resp.op = "process_message_enhanced"
     /\ resp.rag_wanted /\ resp.db_ok /\ ~resp.rag_ok)
        => resp.success /\ resp.rows_added = 1 /\ ~resp.rag_stored

(***************************************************************************)
(* process_user_prompt of tool_memory_orchestrator_sse, one action per     *)
(* step of the handler; its MemoryAgent keeps the basic intelligence.      *)
(* up.trace lists the steps in the order they ran.                         *)
(***************************************************************************)
\* the handler's answer when a step raises: the except branch
Raised(error_type) ==
    [up EXCEPT !.pc = "done", !.success = FALSE, !.error_type = error_type]

UpCall(user_id, prompt, session_id, auto_store, generate_response) ==
    /\ up.pc \in {"idle", "done"}
    /\ up' = Utterance("process_user_prompt", user_id, prompt, session_id,
                       auto_store, generate_response)
    /\ UNCHANGED <<streamVars, storeVars, resp,
                   restVars>>

\* a search that lets the failure of the embedding service escape
search_raises(embedOk, n) ==
    [success |-> embedOk, memories |-> IF embedOk THEN n ELSE 0,
     raised |-> ~embedOk]

\* search_user_memories: without a query vector it answers success false
\* with no memories; n is what db_search_vectors finds otherwise.
search_user_memories(embedOk, n) ==
    [success |-> embedOk, memories |-> IF embedOk THEN n ELSE 0,
     raised |-> FALSE]

\* Step 1: get_conversation_history and search_user_memories; the results
\* are read with .get("conversations", []) and .get("memories", []).
UpRetrieval(embedOk, n) ==
    LET found == search_user_memories(embedOk, n) IN
    /\ up.op = "process_user_prompt"
    /\ up.pc = "retrieval"
    /\ up' = IF found.raised THEN Raised("EmbeddingUnavailable")
             ELSE [up EXCEPT !.pc = "analysis",
                             !.trace = Append(@, "retrieval"),
                             !.found = found.memories,
                             !.embedding_failed = ~found.success]
    /\ UNCHANGED <<streamVars, storeVars, resp,
                   restVars>>

\* What follows the analysis, the prompt storage and the generation.
\* a handler that generates the response before it stores the prompt
GenerateFirst(u) ==
    IF u.generate_response THEN "response_generation"
    ELSE IF u.store_decided THEN "prompt_storage" ELSE "return"
AfterAnalysis(u) ==
    IF u.store_decided THEN "prompt_storage"
    ELSE IF u.generate_response THEN "response_generation" ELSE "return"
AfterPromptStorage(u) ==
    IF u.generate_response THEN "response_generation" ELSE "return"
AfterGeneration(u) ==
    IF u.auto_store THEN "response_storage" ELSE "return"

\* Step 2: extract_memory_type and calculate_importance with the context
\* {"user_memory_count": found}; the prompt is to be stored when auto_store
\* and importance >= 4.0.
UpAnalysis ==
    LET mtype == extract_memory_type(up.prompt)
        importance == calculate_importance(up.prompt, mtype, TRUE, up.found, 0)
        u == [up EXCEPT !.trace = Append(@, "analysis"),
                        !.memory_type = mtype,
                        !.importance = importance,
                        !.store_decided = up.auto_store /\ importance >= 40]
    IN
    /\ up.op = "process_user_prompt"
    /\ up.pc = "analysis"
    /\ up' = [u EXCEPT !.pc = AfterAnalysis(u)]
    /\ UNCHANGED <<streamVars, storeVars, resp,
                   restVars>>

\* store_memory_by_type: add_memory with the type as a string and no
\* importance, under the session or a session named after the day.
store_memory_by_type(rows, user_id, content, memory_type, session_id) ==
    AddMemory(rows, user_id,
              IF session_id \in {None, ""} THEN "session_today" ELSE session_id,
              content, memory_type, TRUE, NoImportance, "basic", now)

\* Step 3: the prompt is stored as a conversation when it was classified so
\* or holds a question mark, under its own type otherwise.
UpStorePrompt ==
    LET mtype == IF up.memory_type = "conversation" \/ IsQuestion(up.prompt)
                 THEN "conversation" ELSE up.memory_type
        r == store_memory_by_type(memories["sse_tool"], up.user_id, up.prompt,
                                  mtype, up.session_id)
        u == [up EXCEPT !.trace = Append(@, "prompt_storage"),
                        !.stored_memory = TRUE,
                        !.rows_added = @ + Len(r.rows) - Len(memories["sse_tool"])]
    IN
    /\ up.op = "process_user_prompt"
    /\ up.pc = "prompt_storage"
    /\ memories' = [memories EXCEPT !["sse_tool"] = r.rows]
    /\ up' = [u EXCEPT !.pc = AfterPromptStorage(u)]
    /\ UNCHANGED <<streamVars, deleted, ragDocs, ragCalls, now, resp,
                   restVars>>

\* model_client.call_tool("generate_completion") answers {"success": false}
\* on any failure, and the handler reads .get("text", <fixed sentence>).
generate_completion(ok) ==
    IF ok THEN "RESP" ELSE "I understand. Let me help you with that."

\* Step 4: the response is generated.
UpGenerate(completionOk) ==
    LET u == [up EXCEPT !.trace = Append(@, "response_generation"),
                        !.completion_failed = ~completionOk,
                        !.response = generate_completion(completionOk)]
    IN
    /\ up.op = "process_user_prompt"
    /\ up.pc = "response_generation"
    /\ up' = [u EXCEPT !.pc = AfterGeneration(u)]
    /\ UNCHANGED <<streamVars, storeVars, resp,
                   restVars>>

\* ... and stored as a conversation memory when auto_store.
UpStoreResponse ==
    LET r == store_memory_by_type(memories["sse_tool"], up.user_id, up.response,
                                  "conversation", up.session_id)
    IN
    /\ up.op = "process_user_prompt"
    /\ up.pc = "response_storage"
    /\ memories' = [memories EXCEPT !["sse_tool"] = r.rows]
    /\ up' = [up EXCEPT !.pc = "return",
                        !.trace = Append(@, "response_storage"),
                        !.rows_added = @ + Len(r.rows) - Len(memories["sse_tool"])]
    /\ UNCHANGED <<streamVars, deleted, ragDocs, ragCalls, now, resp,
                   restVars>>

\* Step 5: the answer, success true.
UpReturn ==
    /\ up.op = "process_user_prompt"
    /\ up.pc = "return"
    /\ up' = [up EXCEPT !.pc = "done", !.success = TRUE]
    /\ UNCHANGED <<streamVars, storeVars, resp,
                   restVars>>

\* AutonomousMemoryAgent.process_autonomously: step 1, _understand_message,
\* calls extract_memory_type on the EnhancedMemoryIntelligence, which has no
\* such method; the except branch answers success false with no action taken.
\* The last lines of _intelligent_storage: the exchange is appended and the
\* list is cut to its last BufferSize entries.
BufferAppend(buf, exchange) ==
    LET b == Append(buf, exchange) IN
    IF Len(b) > BufferSize
    THEN SubSeq(b, Len(b) - BufferSize + 1, Len(b))
    ELSE b

\* _understand_message calls self.intelligence.extract_memory_type
UnderstandRaises == ~IntelHas("enhanced", "extract_memory_type")

ProcessAutonomously(user_id, message, session_id) ==
    LET call0 == Utterance("process_autonomously", user_id, message,
                           session_id, TRUE, TRUE)
        mtype == extract_memory_type(message)
        processed == process_content_for_storage(message, mtype)
    IN
    /\ up.pc \in {"idle", "done"}
    /\ handled[user_id] < MaxHandled
    /\ handled' = [handled EXCEPT ![user_id] = @ + 1]
    /\ IF UnderstandRaises
       THEN \* step 1 raises; the except clause answers success False
            /\ up' = [call0 EXCEPT !.pc = "done", !.success = FALSE,
                                   !.error_type = "AttributeError"]
            /\ UNCHANGED conversation_buffer
       ELSE \* steps 2 to 6; _intelligent_storage runs when the plan has
            \* should_store, that is importance >= 4.0
            /\ up' = [call0 EXCEPT !.pc = "done", !.success = TRUE]
            /\ conversation_buffer' =
                  IF processed.importance >= 40
                  THEN [conversation_buffer EXCEPT ![user_id] =
                          BufferAppend(@, [message |-> message,
                                           response |-> "RESP",
                                           timestamp |-> now,
                                           understanding |-> "conversation"])]
                  ELSE conversation_buffer
    /\ UNCHANGED <<streamVars, storeVars, resp, mem, indexVars,
                   extVars>>

InitUtter == InitStream

NextUtter ==
    \/ \E u \in Users, c \in Contents, sid \in Sessions \cup {None},
          auto_store \in BOOLEAN, generate_response \in BOOLEAN :
          UpCall(u, c, sid, auto_store, generate_response)
    \/ \E embedOk \in BOOLEAN, n \in 0..MaxFound : UpRetrieval(embedOk, n)
    \/ UpAnalysis
    \/ UpStorePrompt
    \/ \E completionOk \in BOOLEAN : UpGenerate(completionOk)
    \/ UpStoreResponse
    \/ UpReturn
    \/ \E u \in Users, c \in Contents, sid \in Sessions \cup {None} :
          ProcessAutonomously(u, c, sid)
    \/ Tick

SpecUtter == InitUtter /\ [][NextUtter]_vars

(***************************************************************************)
(* Properties of the utterance handler.                                    *)
(***************************************************************************)
Precedes(trace, a, b) ==
    \E i, j \in 1..Len(trace) : i < j /\ trace[i] = a /\ trace[j] = b

\* the steps a finished process_user_prompt call must have run, given what
\* it decided, in the order of the handler
StepsDue(u) ==
    <<"retrieval", "analysis">>
    \o (IF u.store_decided THEN <<"prompt_storage">> ELSE <<>>)
    \o (IF u.generate_response THEN <<"response_generation">> ELSE <<>>)
    \o (IF u.generate_response /\ u.auto_store
        THEN <<"response_storage">> ELSE <<>>)

C7_EmbeddingFailureDegrades ==
    /\ (up.op = "process_user_prompt" /\ up.embedding_failed)
          => up.found = 0 /\ up.error_type = ""
    /\ (up.op = "process_user_prompt" /\ up.embedding_failed /\ up.pc = "done")
          => /\ up.success
             /\ up.generate_response => up.response # ""
    /\ (up.op = "process_user_prompt" /\ up.pc = "done")
          => up.error_type # "EmbeddingUnavailable"

\* a finished invocation whose retrieval lost the embedding service and
\* whose response was generated
C7_Witness ==
    /\ up.op = "process_user_prompt" /\ up.pc = "done"
    /\ up.embedding_failed /\ up.success /\ up.response = "RESP"

\* C8: when the completion service fails while a response was requested the
\* invocation answers success = false with CompletionUnavailable, and the
\* prompt is stored whenever its storage was decided.
C8_CompletionFailureReported ==
    (/\ up.op = "process_user_prompt" /\ up.pc = "done"
     /\ up.generate_response /\ up.completion_failed)
        => /\ ~up.success
           /\ up.error_type = "CompletionUnavailable"
           /\ up.store_decided => up.rows_added >= 1


\* C12: after n process_autonomously calls for a user the conversation
\* buffer of that user holds min(n, 10) exchanges.
C12_BufferHoldsRecentExchanges ==
    \A u \in Users :
        Len(conversation_buffer[u]) = Min(handled[u], BufferSize)


(***************************************************************************)
(* A MemoryAgent (MemoryIntelligence enabled) and its MemoryStorage used   *)
(* directly through their public methods: add_memory, search_memory,       *)
(* delete_memory and update_memory.                                        *)
(***************************************************************************)
MemUsers == {"u", "u_s", ""}
MemSessions == {"1", "s_1"}
MemImportances == {0 - 10, 110, NoImportance}   \* tenths of a point

\* results.sort(key=lambda m: (m.importance, m.timestamp), reverse=True):
\* row a is placed before row b
SortsBefore(a, b) ==
    \/ a.importance > b.importance
    \/ a.importance = b.importance /\ a.timestamp > b.timestamp

\* the stable sort, by insertion: a row goes behind the rows it does not
\* sort before
RECURSIVE SortRows(_)
SortRows(rows) ==
    IF rows = <<>> THEN <<>>
    ELSE LET n == Len(rows)
             x == rows[n]
             front == SortRows(SubSeq(rows, 1, n - 1))
             k == Cardinality({i \in 1..Len(front) : ~SortsBefore(x, front[i])})
         IN SubSeq(front, 1, k) \o <<x>> \o SubSeq(front, k + 1, Len(front))

\* MemoryStorage.search_memories with no query and no type filter
SearchLimit == 10
search_memories(rows, user_id, session_id) ==
    LET sorted == SortRows(UserMemories(rows, user_id, session_id))
    IN SubSeq(sorted, 1, Min(SearchLimit, Len(sorted)))

\* position of the first row with the id, 0 when no row has it
FirstWithId(rows, memory_id) ==
    IF \E i \in 1..Len(rows) : rows[i].id = memory_id
    THEN CHOOSE i \in 1..Len(rows) :
            /\ rows[i].id = memory_id
            /\ \A j \in 1..(i - 1) : rows[j].id # memory_id
    ELSE 0

\* MemoryAgent.add_memory(user_id, session_id, content, memory_type,
\* importance) with a MemoryType member or None as the type
MemoryAdd(user_id, session_id, content, memory_type, importance) ==
    LET r == AddMemory(memories["agent"], user_id, session_id, content,
                       memory_type, FALSE, importance, "basic", now)
    IN
    /\ Len(r.rows) <= MaxMemRows
    /\ memories' = [memories EXCEPT !["agent"] = r.rows]
    /\ mem' = [op |-> "add", user_id |-> None, session_id |-> None,
               status |-> r.status, results |-> <<>>]
    /\ UNCHANGED <<streamVars, deleted, ragDocs, ragCalls, now, resp, up,
                   agentVars, indexVars,
                   extVars>>

\* MemoryAgent.search_memory(user_id, session_id=session_id)
MemorySearch(user_id, session_id) ==
    /\ mem' = [op |-> "search", user_id |-> user_id,
               session_id |-> session_id, status |-> "success",
               results |-> search_memories(memories["agent"], user_id,
                                           session_id)]
    /\ UNCHANGED <<streamVars, storeVars, resp, up, agentVars, indexVars,
                   extVars>>

\* MemoryStorage.delete_memory(memory_id): the first row with the id is
\* removed from the list and from both indexes.  (The history variable
\* deleted is kept for the storage of the streaming agent only.)
MemoryDelete(memory_id) ==
    LET rows == memories["agent"]
        i == FirstWithId(rows, memory_id)
    IN
    /\ IF i = 0
       THEN UNCHANGED memories
       ELSE memories' = [memories EXCEPT !["agent"] =
               SubSeq(rows, 1, i - 1) \o SubSeq(rows, i + 1, Len(rows))]
    /\ mem' = [op |-> "delete", user_id |-> None, session_id |-> None,
               status |-> IF i = 0 THEN "False" ELSE "True",
               results |-> <<>>]
    /\ UNCHANGED <<streamVars, deleted, ragDocs, ragCalls, now, resp, up,
                   agentVars, indexVars,
                   extVars>>

\* MemoryStorage.update_memory(memory_id, {key: value}): setattr on the
\* first row with the id, for a key the Memory object has.
MemoryUpdate(memory_id, key, value) ==
    LET rows == memories["agent"]
        i == FirstWithId(rows, memory_id)
    IN
    /\ IF i = 0 \/ key \notin DOMAIN rows[i]
       THEN UNCHANGED memories
       ELSE memories' = [memories EXCEPT !["agent"][i][key] = value]
    /\ mem' = [op |-> "update", user_id |-> None, session_id |-> None,
               status |-> IF i = 0 THEN "False" ELSE "True",
               results |-> <<>>]
    /\ UNCHANGED <<streamVars, deleted, ragDocs, ragCalls, now, resp, up,
                   agentVars, indexVars,
                   extVars>>

\* the updates a caller passes
MemUpdates == {<<"metadata", "{tag}">>, <<"content", "my_name">>,
               <<"embedding", "[0.1]">>}

InitMemory == InitStream

NextMemory ==
    \/ \E u \in MemUsers, sid \in MemSessions \cup {None},
          imp \in MemImportances :
          MemoryAdd(u, sid, "hi", "fact", imp)
    \/ \E u \in MemUsers \ {""}, sid \in MemSessions \cup {None} :
          MemorySearch(u, sid)
    \/ \E id \in RowIds(memories["agent"]) \cup {UnknownId} : MemoryDelete(id)
    \/ \E id \in RowIds(memories["agent"]) \cup {UnknownId}, kv \in MemUpdates :
          MemoryUpdate(id, kv[1], kv[2])
    \/ Tick

SpecMemory == InitMemory /\ [][NextMemory]_vars

\* C13: every memory a search returns belongs to the user_id of the
\* request, with or without a session_id.
C13_SearchScopedToUser ==
    mem.op = "search" =>
        \A i \in 1..Len(mem.results) : mem.results[i].user_id = mem.user_id


\* C15: every stored memory has an importance between 0 and 10 and a
\* non-empty user_id.
C15_StoredImportanceInRange ==
    \A i \in 1..Len(memories["agent"]) :
        /\ memories["agent"][i].importance >= 0
        /\ memories["agent"][i].importance <= 100
        /\ memories["agent"][i].user_id # ""

\* C16: no two stored memories have the same id.
C16_IdsUnique ==
    \A i, j \in 1..Len(memories["agent"]) :
        i # j => memories["agent"][i].id # memories["agent"][j].id

\* C17: no step changes the content of a stored memory: a step that keeps
\* the number of rows keeps the content of each row.
C17_ContentImmutable ==
    [][Len(memories'["agent"]) = Len(memories["agent"]) =>
          \A i \in 1..Len(memories["agent"]) :
              memories'["agent"][i].content = memories["agent"][i].content]_vars


(***************************************************************************)
(* Table provisioning (ensure_table_with_dimension) and the index          *)
(* optimizer (MemoryVectorIndexOptimizer, the tool optimize_vector_index). *)
(* The database is reached through db_client.call_tool, which answers      *)
(* {success: false} when the call fails and never raises; each call of a   *)
(* handler may fail on its own.  The table is held as its declared         *)
(* dimension, its number of rows and the names of its indexes.             *)
(***************************************************************************)
\* _model_dimensions_cache: bge-m3 and text-embedding-ada-002
Dimensions == {1024, 1536}
\* numbers of rows the table is grown to
RowCounts == {50, 100, 1000}

\* pg_attribute.atttypmod of the embedding column as the handler reads it:
\* "atttypmod for vector is dimension + 4"
AttTypMod(dim) == dim + 4

\* the indexes created right after CREATE TABLE (user_id is one of the
\* additional columns of user_memories)
BasicIndexes == {"metadata", "created_at", "user_id"}
\* pg_indexes rows with indexdef LIKE '%embedding%'
EmbeddingIndexes(indexes) ==
    indexes \cap {"embedding", "embedding_optimized", "user_embedding"}

\* _determine_index_strategy: the type of the strategy
IndexStrategy(row_count, unique_users, power_user_ratio_high) ==
    IF row_count < 1000 THEN "none"
    ELSE IF row_count < 10000 THEN "ivfflat_basic"
    ELSE IF row_count < 100000 THEN "ivfflat_optimized"
    ELSE IF unique_users < 1000 THEN "partitioned_ivfflat"
    ELSE "hnsw"

\* _apply_index_strategy: the indexes of the table afterwards, every
\* statement being executed (ddlOk) or every one failing
ApplyIndexStrategy(indexes, type, user_optimized, ddlOk) ==
    LET dropped == IF type # "none" \/ EmbeddingIndexes(indexes) # {}
                   THEN indexes \ {"embedding_optimized"}
                   ELSE indexes
    IN IF ~ddlOk THEN indexes
       ELSE CASE type = "none" -> dropped
              [] type = "ivfflat_basic" -> dropped \cup {"embedding_optimized"}
              [] type = "ivfflat_optimized" ->
                    dropped \cup {"embedding_optimized"}
                            \cup (IF user_optimized THEN {"user_importance"}
                                  ELSE {})
              [] type = "hnsw" -> dropped \cup {"embedding_optimized"}
              [] OTHER -> dropped \cup {"embedding_optimized", "user_embedding"}

\* _get_table_stats succeeds when its first query does: the table exists
\* and the call is answered
StatsSuccess(tbl, statsOk) == statsOk /\ tbl.exists

\* _should_optimize
ShouldOptimize(tbl, last, hours, statsOk) ==
    LET row_count == IF StatsSuccess(tbl, statsOk) THEN tbl.rows ELSE 0 IN
    /\ ~(last # NoTime /\ hours - last < OptimizeInterval)
    /\ ~(row_count < MinRowsToOptimize)

\* optimize_memory_index(table_name, force) of an optimizer whose
\* _last_optimization[table_name] is last: the answer, the indexes of the
\* table afterwards and the new _last_optimization[table_name]
optimize_memory_index(tbl, force, last, hours, statsOk, ddlOk) ==
    IF ~force /\ ~ShouldOptimize(tbl, last, hours, statsOk)
    THEN [optimized |-> FALSE, skipped |-> TRUE, indexes |-> tbl.indexes,
          last |-> last]
    ELSE IF ~StatsSuccess(tbl, statsOk)
    THEN [optimized |-> FALSE, skipped |-> FALSE, indexes |-> tbl.indexes,
          last |-> last]
    ELSE [optimized |-> TRUE, skipped |-> FALSE,
          indexes |-> ApplyIndexStrategy(tbl.indexes,
                         IndexStrategy(tbl.rows, 1, FALSE), FALSE, ddlOk),
          last |-> hours]

\* ensure_table_with_dimension(db_client, "user_memories", dimension,
\* additional_columns).  checkOk, dimOk, dropOk, createOk: the
\* information_schema query, the pg_attribute query, DROP TABLE and CREATE
\* TABLE are answered; statsOk, ddlOk: the calls of the optimizer are.
EnsureTable(dimension, checkOk, dimOk, dropOk, createOk, statsOk, ddlOk) ==
    LET seen == checkOk /\ table.exists
        current_dim == AttTypMod(table.dim) - 4
        needs_recreation == IF seen THEN dimOk /\ current_dim # dimension
                            ELSE TRUE
        afterDrop == IF needs_recreation /\ dropOk THEN NoTable ELSE table
        \* CREATE TABLE fails on a table that is still there
        created == needs_recreation /\ createOk /\ ~afterDrop.exists
        fresh == [exists |-> TRUE, dim |-> dimension, rows |-> 0,
                  indexes |-> BasicIndexes]
        \* a new optimizer object, force=True
        opt == optimize_memory_index(fresh, TRUE, NoTime, hoursNow,
                                     statsOk, ddlOk)
        final == IF created
                 THEN [fresh EXCEPT !.indexes =
                         IF opt.optimized THEN opt.indexes
                         ELSE IF ddlOk THEN opt.indexes \cup {"embedding"}
                         ELSE opt.indexes]
                 ELSE afterDrop
    IN
    /\ table' = final
    /\ ix' = [NoIx EXCEPT !.op = "ensure",
                          !.matched = (table.exists /\ table.dim = dimension),
                          !.kept = (final = table),
                          !.recreated = created,
                          !.result = (~needs_recreation \/ created)]
    /\ UNCHANGED <<streamVars, storeVars, resp, up, agentVars, mem,
                   last_optimization, hoursNow,
                   extVars>>

\* The tool optimize_vector_index(table_name="user_memories", force), on
\* the optimizer object of its module.
OptimizeVectorIndex(force, statsOk, ddlOk) ==
    LET opt == optimize_memory_index(table, force, last_optimization,
                                     hoursNow, statsOk, ddlOk)
    IN
    /\ table' = [table EXCEPT !.indexes = opt.indexes]
    /\ last_optimization' = opt.last
    /\ ix' = [NoIx EXCEPT !.op = "optimize", !.force = force,
                 !.small = (table.exists /\ table.rows < MinRowsToOptimize),
                 !.recent = (/\ last_optimization # NoTime
                             /\ hoursNow - last_optimization < OptimizeInterval),
                 !.optimized = opt.optimized,
                 !.indexes_changed = (opt.indexes # table.indexes),
                 !.result = opt.optimized]
    /\ UNCHANGED <<streamVars, storeVars, resp, up, agentVars, mem, hoursNow,
                   extVars>>

\* rows are inserted into the table (db_store_vector), up to n rows
GrowTable(n) ==
    /\ table.exists
    /\ table.rows < n
    /\ table' = [table EXCEPT !.rows = n]
    /\ UNCHANGED <<streamVars, storeVars, resp, up, agentVars, mem,
                   last_optimization, hoursNow, ix,
                   extVars>>

\* time passes
AdvanceHours ==
    /\ hoursNow + HourStep <= MaxHours
    /\ hoursNow' = hoursNow + HourStep
    /\ UNCHANGED <<streamVars, storeVars, resp, up, agentVars, mem,
                   table, last_optimization, ix,
                   extVars>>

InitIndex == InitStream

NextIndex ==
    \/ \E d \in Dimensions,
          checkOk \in BOOLEAN, dimOk \in BOOLEAN, dropOk \in BOOLEAN,
          createOk \in BOOLEAN, statsOk \in BOOLEAN, ddlOk \in BOOLEAN :
          EnsureTable(d, checkOk, dimOk, dropOk, createOk, statsOk, ddlOk)
    \/ \E force \in BOOLEAN, statsOk \in BOOLEAN, ddlOk \in BOOLEAN :
          OptimizeVectorIndex(force, statsOk, ddlOk)
    \/ \E n \in RowCounts : GrowTable(n)
    \/ AdvanceHours

SpecIndex == InitIndex /\ [][NextIndex]_vars

\* C14: provisioning never drops a table whose declared dimension equals
\* the dimension of the active model: the table and its rows are as before.
C14_MatchingTableKept ==
    ix.op = "ensure" /\ ix.matched => ix.kept

\* C20: an optimization of a table with fewer than 100 rows, or an
\* unforced one within 24 hours of the last, changes no index and reports
\* optimized = false.
C20_SkipsWhenRecentOrSmall ==
    ix.op = "optimize" /\ (ix.small \/ (ix.recent /\ ~ix.force)) =>
        ~ix.optimized /\ ~ix.indexes_changed


C19_RagIffStrategyWithMemoryId ==
    (resp.op = "process_message_enhanced" /\ resp.db_called)
        => /\ (resp.rag_calls_added = 1) = resp.rag_wanted
           /\ (resp.rag_wanted /\ resp.rows_added = 1)
                  => ragCalls[Len(ragCalls)].document_id =
                         memories["enhanced_tool"]
                             [Len(memories["enhanced_tool"])].id



(***************************************************************************)
(* optimize_memory_index of one MemoryVectorIndexOptimizer, one step per   *)
(* awaited database call.  Every caller runs in a task of its own on the   *)
(* event loop, so the steps of two calls interleave at the awaits.         *)
(***************************************************************************)
\* the tables the optimizer is run on: <<rows, distinct users, users with
\* 100 memories or more>>, on both sides of every threshold
TableInputs ==
    {<<50, 10, 0>>, <<999, 10, 0>>, <<1000, 10, 0>>, <<9999, 999, 200>>,
     <<10000, 1000, 200>>, <<10000, 1000, 201>>, <<99999, 999, 200>>,
     <<99999, 1000, 200>>, <<100000, 999, 200>>, <<100000, 1000, 200>>,
     <<150000, 3000, 200>>, <<499999, 1000, 201>>, <<500000, 999, 200>>,
     <<500000, 1000, 200>>}

\* InternalMCPClient.call_tool: every Exception of the connection or of the
\* remote tool is caught and answered as {success: false, error: ...}; the
\* caller of call_tool sees no exception
CallToolRaises(ok) == FALSE

\* _determine_index_strategy(stats); power_users and total_users are
\* taken from stats["user_distribution"]
\* an optimizer that knows the basic IVFFlat index only
determine_basic_only(row_count, unique_users, power_users, total_users) ==
    [NoStrategy EXCEPT !.type = "ivfflat_basic",
                       !.lists = Max(row_count \div 100, 10), !.probes = 5]
determine_index_strategy(row_count, unique_users, power_users, total_users) ==
    LET power_user_ratio_high ==
            total_users > 0 /\ 5 * power_users > total_users
    IN IF row_count < 1000
       THEN [NoStrategy EXCEPT !.type = "none"]
       ELSE IF row_count < 10000
       THEN [NoStrategy EXCEPT !.type = "ivfflat_basic",
                               !.lists = Max(row_count \div 100, 10),
                               !.probes = 5]
       ELSE IF row_count < 100000
       THEN [NoStrategy EXCEPT
                !.type = "ivfflat_optimized",
                !.lists = IF power_user_ratio_high
                          THEN Max(row_count \div 500, 50)
                          ELSE Max(row_count \div 1000, 30),
                !.probes = IF power_user_ratio_high THEN 20 ELSE 10,
                !.user_optimized = power_user_ratio_high]
       ELSE IF unique_users < 1000
       THEN [NoStrategy EXCEPT !.type = "partitioned_ivfflat",
                               !.lists_per_partition = 100,
                               !.probes = 15]
       ELSE [NoStrategy EXCEPT
                !.type = "hnsw",
                !.m = IF row_count < 500000 THEN 16 ELSE 32,
                !.ef_construction = IF row_count < 500000 THEN 200 ELSE 400,
                !.ef_search = 100]

\* the except branch of the hnsw case of _apply_index_strategy
HnswFallback(strategy) ==
    [strategy EXCEPT !.type = "ivfflat_optimized", !.lists = 1000,
                     !.probes = 50]

\* the index a CREATE INDEX statement of _apply_index_strategy asks for
IndexOf(strategy) ==
    CASE strategy.type \in {"ivfflat_basic", "ivfflat_optimized"} ->
            [NoIndex EXCEPT !.method = "ivfflat", !.lists = strategy.lists]
      [] strategy.type = "hnsw" ->
            [NoIndex EXCEPT !.method = "hnsw", !.m = strategy.m,
                            !.ef_construction = strategy.ef_construction]
      [] strategy.type = "partitioned_ivfflat" ->
            [NoIndex EXCEPT !.method = "ivfflat",
                            !.lists = strategy.lists_per_partition * 10]
      [] OTHER -> NoIndex

\* the composite index the strategy adds, if any
CompositeOf(strategy) ==
    IF strategy.type = "ivfflat_optimized" /\ strategy.user_optimized
    THEN {"user_importance"}
    ELSE IF strategy.type = "partitioned_ivfflat" THEN {"user_embedding"}
    ELSE {}

\* optimize_memory_index returns: the answer, _last_optimization being
\* written first when the call came back from _apply_index_strategy
Return(p, optimized, skipped, recorded) ==
    [runs EXCEPT ![p].pc = "done", ![p].optimized = optimized,
                 ![p].skipped = skipped, ![p].recorded = recorded]

\* rows are inserted into the empty table
Populate(n, u, pw) ==
    /\ pg.rows = 0
    /\ pg' = [pg EXCEPT !.rows = n, !.users = u, !.power = pw]
    /\ UNCHANGED <<coreVars, runs, lateVars>>

\* optimize_memory_index(table_name, force) is called and runs up to its
\* first await: an unforced call tests _last_optimization at once
OptCall(p, force) ==
    /\ runs[p].pc \in {"idle", "done"}
    /\ runs' = IF ~force /\ last_optimization # NoTime
                         /\ hoursNow - last_optimization < OptimizeInterval
               THEN [runs EXCEPT ![p] = [NoRun EXCEPT !.pc = "done",
                                                      !.skipped = TRUE]]
               ELSE [runs EXCEPT ![p] =
                        [NoRun EXCEPT !.force = force,
                                      !.pc = IF force THEN "stats"
                                             ELSE "should"]]
    /\ UNCHANGED <<coreVars, pg, lateVars>>

\* the _get_table_stats of _should_optimize is answered; a failed query
\* leaves row_count at its default 0
ShouldOptimizeStep(p, statsOk) ==
    LET row_count == IF statsOk THEN pg.rows ELSE 0 IN
    /\ runs[p].pc = "should"
    /\ runs' = IF row_count < MinRowsToOptimize
               THEN [runs EXCEPT ![p].pc = "done", ![p].skipped = TRUE]
               ELSE [runs EXCEPT ![p].pc = "stats"]
    /\ UNCHANGED <<coreVars, pg, lateVars>>

\* the _get_table_stats of optimize_memory_index is answered (statsOk: the
\* count query, distOk: the user distribution, idxOk: pg_indexes), the
\* strategy is determined and _apply_index_strategy runs up to its first
\* await
GetStatsStep(p, statsOk, distOk, idxOk) ==
    LET power_users == IF distOk THEN pg.power ELSE 0
        total_users == pg.users
        strategy == determine_index_strategy(pg.rows, pg.users,
                                             power_users, total_users)
        current_indexes ==
            idxOk /\ (pg.index # NoIndex \/ "user_embedding" \in pg.extra)
    IN
    /\ runs[p].pc = "stats"
    /\ UNCHANGED pg
    /\ IF ~(statsOk /\ pg.rows > 0)
       THEN /\ runs' = Return(p, FALSE, FALSE, FALSE)
            /\ UNCHANGED last_optimization
       ELSE IF strategy.type # "none" \/ current_indexes
       THEN /\ runs' = [runs EXCEPT ![p].strategy = strategy,
                                    ![p].power_users = power_users,
                                    ![p].total_users = total_users,
                                    ![p].pc = "drop"]
            /\ UNCHANGED last_optimization
       ELSE /\ runs' = [Return(p, TRUE, FALSE, TRUE)
                           EXCEPT ![p].strategy = strategy,
                                  ![p].power_users = power_users,
                                  ![p].total_users = total_users]
            /\ last_optimization' = hoursNow
    /\ UNCHANGED <<streamVars, storeVars, resp, up, agentVars, mem,
                   table, hoursNow, ix, lateVars>>

\* DROP INDEX IF EXISTS idx_user_memories_embedding_optimized is answered
DropStep(p, ok) ==
    /\ runs[p].pc = "drop"
    /\ pg' = IF ok THEN [pg EXCEPT !.index = NoIndex] ELSE pg
    /\ IF runs[p].strategy.type = "none"
       THEN /\ runs' = Return(p, TRUE, FALSE, TRUE)
            /\ last_optimization' = hoursNow
       ELSE /\ runs' = [runs EXCEPT ![p].pc = "create"]
            /\ UNCHANGED last_optimization
    /\ UNCHANGED <<streamVars, storeVars, resp, up, agentVars, mem,
                   table, hoursNow, ix, lateVars>>

\* CREATE INDEX idx_user_memories_embedding_optimized is answered; the
\* statement fails when the database refuses it (ok) or when an index of
\* that name exists.  Only an exception out of call_tool reaches the
\* except branch of the hnsw case, which starts over with the fallback.
CreateStep(p, ok) ==
    LET done == ok /\ pg.index = NoIndex IN
    /\ runs[p].pc = "create"
    /\ pg' = IF done THEN [pg EXCEPT !.index = IndexOf(runs[p].strategy)]
             ELSE pg
    /\ runs' = IF runs[p].strategy.type = "hnsw" /\ CallToolRaises(ok)
               THEN [runs EXCEPT
                        ![p].strategy = HnswFallback(runs[p].strategy),
                        ![p].pc = "drop"]
               ELSE [runs EXCEPT ![p].create_failed = ~done,
                                 ![p].pc = "analyze"]
    /\ UNCHANGED <<coreVars, lateVars>>

\* the statements after CREATE INDEX (SET ..., the composite index) and
\* ANALYZE are answered; _apply_index_strategy answers optimized = true
\* and optimize_memory_index writes _last_optimization
AnalyzeStep(p, ok) ==
    /\ runs[p].pc = "analyze"
    /\ pg' = IF ok THEN [pg EXCEPT !.extra = @ \cup CompositeOf(runs[p].strategy)]
             ELSE pg
    /\ runs' = Return(p, TRUE, FALSE, TRUE)
    /\ last_optimization' = hoursNow
    /\ UNCHANGED <<streamVars, storeVars, resp, up, agentVars, mem,
                   table, hoursNow, ix, lateVars>>

InitOptimizer == InitStream

NextOptimizer ==
    \/ \E t \in TableInputs : Populate(t[1], t[2], t[3])
    \/ \E p \in Callers, force \in BOOLEAN : OptCall(p, force)
    \/ \E p \in Callers, statsOk \in BOOLEAN : ShouldOptimizeStep(p, statsOk)
    \/ \E p \in Callers, statsOk \in BOOLEAN, distOk \in BOOLEAN,
          idxOk \in BOOLEAN : GetStatsStep(p, statsOk, distOk, idxOk)
    \/ \E p \in Callers, ok \in BOOLEAN : DropStep(p, ok)
    \/ \E p \in Callers, ok \in BOOLEAN : CreateStep(p, ok)
    \/ \E p \in Callers, ok \in BOOLEAN : AnalyzeStep(p, ok)
    \/ AdvanceHours

SpecOptimizer == InitOptimizer /\ [][NextOptimizer]_vars

\* C21: a call whose HNSW construction failed ends with the fallback
\* strategy -- IVFFlat accurate, lists = 1000, probes = 50 -- and not with
\* the table left without a vector index.
C21_HnswFailureFallsBack ==
    \A p \in Callers :
        (/\ runs[p].pc = "done"
         /\ runs[p].create_failed
         /\ runs[p].strategy.m > 0)
            => /\ runs[p].strategy.type = "ivfflat_optimized"
               /\ runs[p].strategy.lists = 1000
               /\ runs[p].strategy.probes = 50


InIndexSteps(p) == runs[p].pc \in {"drop", "create", "analyze"}

\* C26: at most one optimization of the table runs at a time -- two calls
\* of optimize_memory_index never have their DROP INDEX / CREATE INDEX
\* steps in progress together.
C26_OneOptimizationAtATime ==
    \A p, q \in Callers : p # q => ~(InIndexSteps(p) /\ InIndexSteps(q))


\* C28: _last_optimization is written for the table only by a call whose
\* optimization succeeded -- a call whose CREATE INDEX failed, or that
\* answered optimized = false, leaves it as it was, so that it cannot make
\* a later unforced call be skipped as recently optimized.
C28_RecordedOnlyWhenSucceeded ==
    \A p \in Callers :
        runs[p].pc = "done" =>
            /\ runs[p].recorded =>
                   runs[p].optimized /\ ~runs[p].create_failed
            /\ ~runs[p].optimized => ~runs[p].recorded



(***************************************************************************)
(* StorageStrategyDeterminer: determine_strategy for a hierarchical type   *)
(* path and optimize_strategy.  Importances are in tenths, the search hit  *)
(* rate in hundredths.                                                     *)
(***************************************************************************)
\* the type paths asked about, as memory_type.split("/") gives them: the
\* eight branches of the type tree and two paths outside it
PlanTypes ==
    {<<"personal", "identity", "name">>, <<"personal", "preference", "food">>,
     <<"personal", "profession", "job">>, <<"knowledge", "skill", "technical">>,
     <<"knowledge", "experience", "work">>, <<"knowledge", "fact", "general">>,
     <<"temporal", "conversation", "question">>,
     <<"temporal", "context", "current">>,
     <<"temporal", "event", "meeting">>, <<"social", "contact", "friend">>}
PlanImportances == {39, 40, 59, 60, 69, 70, 79, 80}
PlanSizes == {1000, 1001}
DailyCounts == {10, 11}
DaysSince == {29, 30, 31}
HitRates == {9, 10}

\* StorageStrategyDeterminer.strategies, and the strategy built in place
\* for knowledge/fact
StrategyFields(name) ==
    CASE name = "high_value_frequent" ->
            Strategy("DB", {"RAG", "CACHE"}, TRUE, TRUE, NoTtl, FALSE, TRUE)
      [] name = "high_value_infrequent" ->
            Strategy("DB", {"ARCHIVE"}, FALSE, TRUE, NoTtl, TRUE, TRUE)
      [] name = "conversational" ->
            Strategy("DB", {}, FALSE, TRUE, NoTtl, FALSE, TRUE)
      [] name = "temporary" ->
            Strategy("CACHE", {}, FALSE, FALSE, 86400, FALSE, FALSE)
      [] name = "large_content" ->
            Strategy("DB", {"ARCHIVE"}, FALSE, TRUE, NoTtl, TRUE, TRUE)
      [] OTHER ->
            Strategy("DB", {}, FALSE, TRUE, NoTtl, FALSE, TRUE)

\* _determine_hierarchical_strategy: the name of the strategy returned
determine_hierarchical_strategy(major, minor, importance, content_size) ==
    CASE major = "personal" /\ minor \in {"identity", "profession"} ->
            "high_value_frequent"
      [] major = "personal" /\ minor = "preference" ->
            IF importance >= 70 THEN "high_value_frequent"
            ELSE "high_value_infrequent"
      [] major = "knowledge" /\ minor = "skill" -> "high_value_frequent"
      [] major = "knowledge" /\ minor = "experience" ->
            IF content_size > 1000 THEN "large_content" ELSE "conversational"
      [] major = "knowledge" /\ minor = "fact" ->
            IF importance >= 80 THEN "high_value_infrequent" ELSE "in_place"
      [] major = "temporal" /\ minor = "conversation" -> "conversational"
      [] major = "temporal" /\ minor = "context" -> "temporary"
      [] OTHER -> DefaultStrategy(importance, content_size)

\* optimize_strategy(current_strategy, access_stats)
optimize_strategy(current, daily, days, hit_rate) ==
    LET accessed ==
            IF daily > 10
            THEN [current EXCEPT !.secondary_locations = @ \cup {"CACHE"}]
            ELSE IF days > 30
            THEN [current EXCEPT
                     !.secondary_locations = (@ \cup {"ARCHIVE"}) \ {"CACHE"},
                     !.compression_enabled = TRUE]
            ELSE current
    IN IF hit_rate < 10 /\ accessed.includes_rag
       THEN [accessed EXCEPT !.includes_rag = FALSE,
                             !.secondary_locations = @ \ {"RAG"}]
       ELSE accessed

\* determine_strategy(memory_type, importance, content_size) for the path
\* major/minor/detail
DetermineStrategy(type, importance, content_size) ==
    /\ plan' = [NoPlan EXCEPT
                   !.op = "determine", !.major = type[1], !.minor = type[2],
                   !.importance = importance, !.content_size = content_size,
                   !.strategy = StrategyFields(
                       determine_hierarchical_strategy(type[1], type[2],
                                                       importance,
                                                       content_size))]
    /\ UNCHANGED <<coreVars, optVars, cl, storage>>

\* optimize_strategy on the strategy last returned
OptimizeStrategy(daily, days, hit_rate) ==
    /\ plan.op # "none"
    /\ plan' = [plan EXCEPT
                   !.op = "optimize", !.daily_access_count = daily,
                   !.days_since_last_access = days,
                   !.search_hit_rate = hit_rate,
                   !.before = plan.strategy,
                   !.strategy = optimize_strategy(plan.strategy, daily, days,
                                                  hit_rate)]
    /\ UNCHANGED <<coreVars, optVars, cl, storage>>

InitPlan == InitStream

NextPlan ==
    \/ \E type \in PlanTypes, i \in PlanImportances, size \in PlanSizes :
          DetermineStrategy(type, i, size)
    \/ \E daily \in DailyCounts, days \in DaysSince, hit \in HitRates :
          OptimizeStrategy(daily, days, hit)

SpecPlan == InitPlan /\ [][NextPlan]_vars

\* the type has a row of its own in the policy table
HasPolicyRow(major, minor) ==
    \/ major = "personal" /\ minor \in {"identity", "preference"}
    \/ major = "knowledge" /\ minor \in {"skill", "experience"}
    \/ major = "temporal" /\ minor \in {"conversation", "context"}

\* C23: temporal/context/* is planned as CACHE, no secondary, no
\* embedding, no RAG, TTL 86400 s; a type with no row of its own is
\* planned by importance alone -- from 8 DB with RAG and CACHE, from 6 DB
\* with ARCHIVE and compression only when the size exceeds 1000, from 4 DB
\* alone, below 4 CACHE with TTL 86400 s and no embedding.
C23_PlanFollowsPolicyTable ==
    LET st == plan.strategy IN
    plan.op = "determine" =>
        /\ (plan.major = "temporal" /\ plan.minor = "context") =>
              st = Strategy("CACHE", {}, FALSE, FALSE, 86400, FALSE, FALSE)
        /\ ~HasPolicyRow(plan.major, plan.minor) =>
              IF plan.importance >= 80
              THEN /\ st.primary_location = "DB"
                   /\ st.secondary_locations = {"RAG", "CACHE"}
                   /\ st.includes_rag /\ st.includes_embedding
              ELSE IF plan.importance >= 60
              THEN /\ st.primary_location = "DB"
                   /\ st.secondary_locations = {"ARCHIVE"}
                   /\ st.compression_enabled => plan.content_size > 1000
              ELSE IF plan.importance >= 40
              THEN /\ st.primary_location = "DB"
                   /\ st.secondary_locations = {}
              ELSE /\ st.primary_location = "CACHE"
                   /\ st.ttl_seconds = 86400
                   /\ ~st.includes_embedding

\* C24: re-planning adds CACHE under high daily access; from 30 days
\* without access (and no high daily access) it adds ARCHIVE, removes CACHE
\* and enables compression; under a search hit rate below 0.1 it leaves
\* includes_rag false and RAG out of the secondary locations.
C24_ReplanningAppliesEachRule ==
    LET st == plan.strategy
        high_access == plan.daily_access_count > 10
    IN
    plan.op = "optimize" =>
        /\ high_access => "CACHE" \in st.secondary_locations
        /\ (~high_access /\ plan.days_since_last_access >= 30) =>
              /\ "ARCHIVE" \in st.secondary_locations
              /\ "CACHE" \notin st.secondary_locations
              /\ st.compression_enabled
        /\ plan.search_hit_rate < 10 =>
              ~st.includes_rag /\ "RAG" \notin st.secondary_locations



(***************************************************************************)
(* InternalMCPClient.call_tool of the two servers: the client of           *)
(* mcp-memory, which opens a connection per call, and the client of        *)
(* mcp-rag, which keeps a session and loops over its attempts.  cl.sent    *)
(* counts the requests that reached the downstream server, cl.sleeps the   *)
(* seconds slept between attempts.                                         *)
(***************************************************************************)
Clients == {"memory", "rag"}
ReadTools == {"generate_embedding", "describe_table"}
WriteTools == {"db_store_vector", "db_delete", "db_create_table"}
ClientTools == ReadTools \cup WriteTools

\* what one attempt can meet: an answer, an answer without content, no
\* answer within the timeout, a connection that cannot be opened (nothing
\* is sent), an exception of the session after the request went out
Outcomes(client) ==
    IF client = "rag"
    THEN {"ok", "empty", "timeout", "connect_error", "error"}
    ELSE {"ok", "empty", "connect_error", "error"}

\* max_retries of the looping client; the other client has no loop
max_retries(client) == IF client = "rag" THEN 3 ELSE 1

\* asyncio.sleep(1 * (attempt + 1)), attempt counted from 0
SleepSeconds(attempt) == 1 * (attempt + 1)

\* call_tool(tool_name, params) is entered
CallTool(client, tool_name) ==
    /\ cl.pc \in {"idle", "done"}
    /\ cl' = [NoClientCall EXCEPT !.pc = "attempt", !.client = client,
                                  !.tool_name = tool_name]
    /\ UNCHANGED <<coreVars, optVars, plan, storage>>

\* one pass of the body: the request, its answer or its exception, and the
\* sleep before the next pass
Attempt(outcome) ==
    /\ cl.pc = "attempt"
    /\ outcome \in Outcomes(cl.client)
    /\ LET sent == IF outcome = "connect_error" THEN cl.sent ELSE cl.sent + 1
           made == cl.attempt + 1
       IN
       cl' = CASE outcome = "ok" ->
                    [cl EXCEPT !.pc = "done", !.attempt = made, !.sent = sent,
                               !.success = TRUE]
               [] outcome = "empty" ->
                    [cl EXCEPT !.pc = "done", !.attempt = made, !.sent = sent,
                               !.error_type = "EmptyResponse"]
               [] cl.client = "memory" ->
                    [cl EXCEPT !.pc = "done", !.attempt = made, !.sent = sent,
                               !.error_type = "Exception"]
               [] made < max_retries(cl.client) ->
                    [cl EXCEPT !.attempt = made, !.sent = sent,
                               !.sleeps = Append(@, SleepSeconds(cl.attempt))]
               [] OTHER ->
                    [cl EXCEPT !.pc = "done", !.attempt = made, !.sent = sent,
                               !.error_type = "MaxRetriesExceeded"]
    /\ UNCHANGED <<coreVars, optVars, plan, storage>>

InitClient == InitStream

NextClient ==
    \/ \E client \in Clients, tool \in ClientTools : CallTool(client, tool)
    \/ \E outcome \in {"ok", "empty", "timeout", "connect_error", "error"} :
          Attempt(outcome)

SpecClient == InitClient /\ [][NextClient]_vars

\* two to the power n
RECURSIVE Pow2(_)
Pow2(n) == IF n = 0 THEN 1 ELSE 2 * Pow2(n - 1)

\* C25: an idempotent read is attempted at most 3 times, the sleeps
\* between its attempts are 1 s, 2 s, ... (doubling from 1 s); a write is
\* attempted once and reaches the downstream store at most once.
C25_ReadsRetriedWritesNot ==
    /\ cl.tool_name \in ReadTools =>
          /\ cl.attempt <= 3
          /\ \A i \in 1..Len(cl.sleeps) : cl.sleeps[i] = Pow2(i - 1)
    /\ cl.tool_name \in WriteTools => cl.attempt <= 1 /\ cl.sent <= 1



\* C27: a subscription added or removed for a key while emit_event is
\* delivering an event for that key never makes the emit fail: no
\* emit_event call ends in the RuntimeError of a set changed during
\* iteration.
C27_EmitSurvivesSubscriptionChange ==
    \A e \in EmitterIds : emitters[e].pc # "failed"

\* C30: subscribe_memory_updates(user_id, session_id) collects only events
\* whose user_id is the requested user_id, with or without a session_id.
C30_OnlyEventsOfRequestedUser ==
    \A q \in QueueIds :
        call[q].pc # "none" =>
            \A i \in 1..Len(received[q]) :
                events[received[q][i]].user_id = call[q].user_id



(***************************************************************************)
(* The in-memory MemoryStorage with its two indexes.  storage.objs is the  *)
(* heap of Memory objects (a Memory is compared by identity, its place in  *)
(* objs); memories, index_by_user[k] and index_by_session[k] are lists of  *)
(* places.  The key f"{user_id}_{session_id}" is held as the pair.         *)
(***************************************************************************)
\* the ids a caller can name: those of the Memory objects built so far and
\* one that no memory has
StorageIds == {storage.objs[o].id : o \in 1..Len(storage.objs)} \cup {NoId}
StorageSessions == {"s1", "s2"}
UpdateKeys == {"user_id", "session_id", "content", "rank"}

\* dict.get(key, [])
IndexGet(index, key) == IF key \in DOMAIN index THEN index[key] ELSE <<>>

\* if key not in index: index[key] = [];  index[key].append(o)
IndexAppend(index, key, o) ==
    [k \in DOMAIN index \cup {key} |->
        IF k = key THEN Append(IndexGet(index, key), o) ELSE index[k]]

\* x in list
InList(list, o) == \E i \in 1..Len(list) : list[i] = o

\* list.remove(o): the first occurrence goes
ListRemove(list, o) ==
    LET i == CHOOSE i \in 1..Len(list) :
                 list[i] = o /\ \A j \in 1..(i - 1) : list[j] # o
    IN SubSeq(list, 1, i - 1) \o SubSeq(list, i + 1, Len(list))

\* if o in index.get(key, []): that list .remove(o)
IndexRemove(index, key, o) ==
    IF InList(IndexGet(index, key), o)
    THEN [index EXCEPT ![key] = ListRemove(@, o)]
    ELSE index

session_key(memory) == <<memory.user_id, memory.session_id>>

\* for memory in self.memories: if memory.id == memory_id -- the place of
\* the first such memory, 0 when there is none
FindById(memory_id) ==
    LET hits == {i \in 1..Len(storage.memories) :
                    storage.objs[storage.memories[i]].id = memory_id}
    IN IF hits = {} THEN 0
       ELSE storage.memories[CHOOSE i \in hits : \A j \in hits : i <= j]

\* store_memory(memory) for a Memory built at second t
StoreMemory(user_id, session_id, t, content) ==
    LET memory == [id |-> MemoryId(user_id, session_id, t, content),
                   user_id |-> user_id, session_id |-> session_id,
                   content |-> content]
        o == Len(storage.objs) + 1
    IN
    /\ Len(storage.objs) < MaxObjects
    /\ storage' =
          IF ~StorageAccepts(user_id, session_id)
          THEN [storage EXCEPT !.op = "store", !.returned = FALSE,
                               !.results = <<>>]
          ELSE [storage EXCEPT
                   !.objs = Append(@, memory),
                   !.memories = Append(@, o),
                   !.index_by_user = IndexAppend(@, user_id, o),
                   !.index_by_session = IndexAppend(@, session_key(memory), o),
                   !.op = "store", !.returned = TRUE,
                   !.results = <<>>]
    /\ UNCHANGED <<coreVars, optVars, plan, cl>>

\* update_memory(memory_id, {key: value}); a key the Memory has no
\* attribute for is passed over
UpdateMemory(memory_id, key, value) ==
    LET o == FindById(memory_id) IN
    /\ storage.op # "none"
    /\ storage' =
          IF o = 0
          THEN [storage EXCEPT !.op = "update", !.returned = FALSE,
                               !.results = <<>>]
          ELSE [storage EXCEPT
                   !.objs[o] = IF key \in DOMAIN storage.objs[o]
                               THEN [@ EXCEPT ![key] = value] ELSE @,
                   !.op = "update", !.returned = TRUE,
                   !.results = <<>>]
    /\ UNCHANGED <<coreVars, optVars, plan, cl>>

\* delete_memory(memory_id)
DeleteMemory(memory_id) ==
    LET o == FindById(memory_id) IN
    /\ storage.op # "none"
    /\ storage' =
          IF o = 0
          THEN [storage EXCEPT !.op = "delete", !.returned = FALSE,
                               !.results = <<>>]
          ELSE LET memory == storage.objs[o] IN
               [storage EXCEPT
                   !.memories = ListRemove(@, o),
                   !.index_by_user = IndexRemove(@, memory.user_id, o),
                   !.index_by_session =
                       IndexRemove(@, session_key(memory), o),
                   !.op = "delete", !.returned = TRUE,
                   !.results = <<>>]
    /\ UNCHANGED <<coreVars, optVars, plan, cl>>

\* search_memories(user_id, session_id) without query or types; the
\* memories of this model have one importance and one timestamp, so the
\* stable sort leaves the candidates in their order
SearchMemories(user_id, session_id) ==
    /\ storage.op # "none"
    /\ storage' =
          [storage EXCEPT
              !.op = "search", !.returned = TRUE,
              !.results =
                  IF session_id \notin {None, ""}
                  THEN IndexGet(storage.index_by_session,
                                <<user_id, session_id>>)
                  ELSE IndexGet(storage.index_by_user, user_id)]
    /\ UNCHANGED <<coreVars, optVars, plan, cl>>

InitStorage == InitStream

NextStorage ==
    \/ \E u \in Users, sid \in StorageSessions \cup {None}, t \in 0..MaxTime :
          StoreMemory(u, sid, t, "hi")
    \/ \E id \in StorageIds, key \in UpdateKeys :
          \E value \in (CASE key = "user_id" -> Users
                          [] key = "session_id" -> StorageSessions
                          [] OTHER -> {"my_name"}) :
             UpdateMemory(id, key, value)
    \/ \E id \in StorageIds : DeleteMemory(id)
    \/ \E u \in Users, sid \in StorageSessions \cup {None} :
          SearchMemories(u, sid)

SpecStorage == InitStorage /\ [][NextStorage]_vars

\* C29: a memory is in the main list exactly when it is in the index entry
\* of its current user_id and in the index entry of its current
\* (user_id, session_id); and no search returns a memory that is not in the
\* main list.
C29_IndexesAgreeWithMainList ==
    /\ \A o \in 1..Len(storage.objs) :
          InList(storage.memories, o) <=>
              /\ InList(IndexGet(storage.index_by_user,
                                 storage.objs[o].user_id), o)
              /\ InList(IndexGet(storage.index_by_session,
                                 session_key(storage.objs[o])), o)
    /\ \A i \in 1..Len(storage.results) :
          InList(storage.memories, storage.results[i])

====
